---- MODULE Spec2Model ----
(***************************************************************************)
(* Hamiltonian-cycle zero-knowledge authentication: the verifier           *)
(* (zkp_server_mock.py), the honest prover (zkp_client_mock.py) and the    *)
(* attacker harness (fake_client.py) exchanging four JSON files of a       *)
(* shared directory, over the enrolled graph of matrix_graph.py; a second  *)
(* run of the honest prover on the same files; and the library on its      *)
(* own: the DRBG, the two derive_permutation, the graph builder step by    *)
(* step, and the seed files of seed_manager.py.  The variable hist is a    *)
(* history of the running session (the package pinned, counts of messages  *)
(* sent and read); log, enc_last and g_out are histories of the library    *)
(* calls.  No action reads a history.                                      *)
(*                                                                         *)
(* Idealisations, stated once:                                             *)
(*  - SHA-256, HMAC-SHA-256 and scrypt are collision free: a digest is the *)
(*    input under a tag, so two digests are equal exactly when the inputs  *)
(*    are.  AES-GCM decrypts exactly under the key and nonce of the        *)
(*    encryption and raises InvalidTag otherwise.                          *)
(*  - The words HMAC returns for a DRBG key and counter are a function     *)
(*    chosen at the start, a short pattern repeated; the patterns hold     *)
(*    small words and words at the top of the 32-bit range.  The row       *)
(*    nonces of a session seed are an injective function of (seed,         *)
(*    position); os.urandom never returns a value of that stream.          *)
(*  - Every JSON package is well typed (hex strings decode, indices are    *)
(*    integers); a package that makes the verifier raise is not modelled.  *)
(***************************************************************************)
EXTENDS Integers, Sequences, FiniteSets, TLC

\* ---------------------------------------------------------------- bounds
\* number of vertices of the enrolled graph (manifest "n")
NumVertices == 4
\* largest --rounds value explored
MaxT == 2
\* longest opened_rows list a forged OPEN carries
MaxOpened == 2
\* attacker trials explored (--trials)
MaxTrials == 2

\* small graph sizes explored next to the sizes around OpenLimit
MaxSmallSize == 3

\* largest n given to derive_permutation
MaxPermSize == 5
\* largest small 32-bit word of the DRBG streams explored
MaxWord == 3
\* rand_u32 and randint are called on a DRBG whose counter is below this
MaxCalls == 3
\* the words one randint call is followed through rejecting
MaxRejects == 3
\* set_bit calls made on one matrix
MaxSets == 2
\* largest n given to generate_graph_with_planted_cycle step by step
MaxGraphSize == 4

\* ------------------------------------------------------ program constants
OpenLimit == 200
CycleLimit == 500
ForgePicks == 10
SEED_SIZE == 32
SALT_SIZE == 16
NONCE_SIZE == 12
TrialsPerVertex == 50

n == NumVertices
Min(x, y) == IF x < y THEN x ELSE y

\* ------------------------------------------------------------ hex / bytes
RECURSIVE Hex(_)
\* bytes.hex(): two nibbles per byte, high nibble first
Hex(bytes) ==
    IF bytes = <<>> THEN <<>>
    ELSE <<Head(bytes) \div 16, Head(bytes) % 16>> \o Hex(Tail(bytes))

\* bytes.fromhex() of an even-length nibble string
FromHex(h) == [k \in 1..(Len(h) \div 2) |-> h[2 * k - 1] * 16 + h[2 * k]]

\* str.encode() of the context strings in use
Encode(s) ==
    IF s = "row-commit" THEN <<114, 99>>
    ELSE IF s = "" THEN <<>>
    ELSE <<120>>

\* sha256(data).digest(), collision free
Sha256(data) == [sha256 |-> data]
\* bytes.hex() of a digest
DigestHex(digest) == [hex |-> digest]
\* [c.hex() for c in commits]
HexAll(digests) == [k \in 1..Len(digests) |-> DigestHex(digests[k])]
\* sha256(data).hexdigest()
Sha256Hex(data) == DigestHex(Sha256(data))

\* sha256(session.encode()).digest(): the session seed, one byte per session id
SessionSeed(s) ==
    IF s = "honest-1" THEN 1
    ELSE IF s = "enroll-session" THEN 2
    ELSE IF s = "attacker-session" THEN 3
    ELSE IF s = "honest-2" THEN 5
    ELSE 4

\* ------------------------------------------------------------- BitMatrix
\* BitMatrix.__init__: bytes per row of a matrix of the given size
row_bytes(size) == (size + 7) \div 8

Pow2(k) == IF k = 0 THEN 1 ELSE IF k = 1 THEN 2 ELSE IF k = 2 THEN 4
           ELSE IF k = 3 THEN 8 ELSE IF k = 4 THEN 16 ELSE IF k = 5 THEN 32
           ELSE IF k = 6 THEN 64 ELSE 128

\* faulty variant: the lowest bit of a byte comes first
BitPos_LowBitFirst(j) == [byte_idx |-> (j \div 8) + 1, mask |-> Pow2(j % 8)]

\* _bitpos: byte index (1-based here) and mask of column j
BitPos(j) == [byte_idx |-> (j \div 8) + 1, mask |-> Pow2(7 - (j % 8))]

\* bit j of a row given as bytes
RowBit(row, j) ==
    LET p == BitPos(j)
    IN  IF p.byte_idx > Len(row) THEN 0 ELSE (row[p.byte_idx] \div p.mask) % 2

get_bit(rows, i, j) == RowBit(rows[i], j)

\* set_bit: rows[i][b] |= m when v is set, rows[i][b] &= (~m) & 0xFF otherwise
set_bit(rows, i, j, v) ==
    LET p == BitPos(j)
        old == rows[i][p.byte_idx]
        cur == (old \div p.mask) % 2
        new == IF v # 0 THEN (IF cur = 1 THEN old ELSE old + p.mask)
               ELSE (IF cur = 1 THEN old - p.mask ELSE old)
    IN  [rows EXCEPT ![i] = [@ EXCEPT ![p.byte_idx] = new]]

has_edge(rows, u, v) == get_bit(rows, u, v) = 1

\* faulty variant: only the bit (u, v) is set
add_edge_undirected_OneWay(rows, u, v) ==
    IF u = v THEN rows ELSE set_bit(rows, u, v, 1)

add_edge_undirected(rows, u, v) ==
    IF u = v THEN rows ELSE set_bit(set_bit(rows, u, v, 1), v, u, 1)

EmptyMatrix(size) == [i \in 0..(size - 1) |-> [k \in 1..row_bytes(size) |-> 0]]

RECURSIVE PlantCycle(_, _, _, _, _)
\* the planting loop: edges (sigma[i], sigma[(i+1) % n]) for i = lo..hi-1 in
\* that order; the range is split in two and the first half is computed
\* before the second is entered, which keeps the evaluation shallow
PlantCycle(rows, sg, lo, hi, size) ==
    IF hi <= lo THEN rows
    ELSE IF hi = lo + 1
    THEN add_edge_undirected(rows, sg[lo + 1], sg[((lo + 1) % size) + 1])
    ELSE LET mid == (lo + hi) \div 2
             left == PlantCycle(rows, sg, lo, mid, size)
         IN  IF DOMAIN left = DOMAIN rows
             THEN PlantCycle(left, sg, mid, hi, size)
             ELSE rows

RECURSIVE AddNoise(_, _)
\* the noise loop on a given stream of (u, v) draws
AddNoise(rows, draws) ==
    IF draws = <<>> THEN rows
    ELSE LET u == Head(draws)[1]
             v == Head(draws)[2]
         IN  IF u = v \/ has_edge(rows, u, v) THEN AddNoise(rows, Tail(draws))
             ELSE AddNoise(add_edge_undirected(rows, u, v), Tail(draws))

generate_graph_with_planted_cycle(size, sg, draws) ==
    AddNoise(PlantCycle(EmptyMatrix(size), sg, 0, size, size), draws)

\* the permutations derive_permutation may return that are explored
Identity == [i \in 1..n |-> i - 1]
SigmaChoices ==
    {Identity, [i \in 1..n |-> IF i = 2 THEN 2 ELSE IF i = 3 THEN 1 ELSE i - 1]}
\* the noise draws explored
NoiseChoices == {<<>>, <<<<0, 2>>, <<1, 1>>>>}

\* ---------------------------------------------------------- commit engine
\* row i's nonce: the i-th 16-byte block of the DRBG keyed from seed_session
RowNonce(seed_session, i) == <<seed_session, i>>
\* a nonce from os.urandom
RandomNonce == <<255, 255>>

\* faulty variant: the nonce is hashed before the row
commit_row_NonceFirst(rows, i, nonce, context) == Sha256(nonce \o rows[i] \o context)

\* BitMatrix.commit_row: the digest of row || nonce || context
commit_row(rows, i, nonce, context) == Sha256(rows[i] \o nonce \o context)

commit_matrix_rows(rows, seed_session) ==
    [commits |-> [k \in 1..Cardinality(DOMAIN rows) |->
                    commit_row(rows, k - 1, RowNonce(seed_session, k - 1),
                               Encode("row-commit"))],
     nonces  |-> [k \in 1..Cardinality(DOMAIN rows) |-> RowNonce(seed_session, k - 1)]]

\* ------------------------------------------------------- mailbox files
\* a file of the shared directory: missing, opened for writing and still
\* empty, or holding one complete JSON document
Absent == [exists |-> FALSE, text |-> <<>>]
Truncated == [exists |-> TRUE, text |-> <<>>]
File(doc) == [exists |-> TRUE, text |-> <<doc>>]
\* json.load succeeds
Complete(f) == f.exists /\ f.text # <<>>
Doc(f) == f.text[1]

\* dict.get(key, default)
Get(d, key, default) == IF key \in DOMAIN d THEN d[key] ELSE default

VARIABLES
    sigma,        \* the enrolled secret permutation (derive_permutation)
    bm,           \* graph_adjmatrix.bin: the rows of the enrolled BitMatrix
    t_rounds,     \* --rounds
    commitsFile,  \* commit_package.json
    challFile,    \* challenge.json
    openFile,     \* open_package.json
    resultFile,   \* round_result.json
    s_pc,         \* server_loop: position
    commits,      \* server_loop: commits pinned from COMMITS
    s_session,    \* server_loop: session pinned from COMMITS
    rr,           \* server_loop: round counter
    b,            \* server_loop: challenge bit of the round
    open_pkg,     \* server_loop: the OPEN read in this round
    ok,           \* server_loop: verify_open's verdict
    detail,       \* server_loop: verify_open's detail
    session_ok,   \* server_loop: session verdict
    msg,          \* server_loop: session message
    c_pc,         \* client_session: position
    c_session,    \* client_session: session id
    c_rr,         \* client_session: round counter
    challenge,    \* client_session: the challenge being answered
    nonces,       \* client_session: the row nonces of the session
    c_res,        \* client_session: the RESULT read
    a_pc,         \* attacker main: position
    mode,         \* attacker main: --mode
    t,            \* attacker main: trial index
    commit_pkg,   \* attacker main: the COMMITS package read back
    ch,           \* attacker main: the challenge read
    stats,        \* attacker main: counters
    d_pc,         \* second client_session: position
    d_session,    \* second client_session: session id
    d_rr,         \* second client_session: round counter
    d_challenge,  \* second client_session: the challenge being answered
    d_nonces,     \* second client_session: the row nonces of the session
    d_res,        \* second client_session: the RESULT read
    nv,           \* derive_permutation, client_session: the size n given
    perm,         \* derive_permutation: the list being shuffled
    fy_i,         \* derive_permutation: loop index i
    p_pc,         \* derive_permutation: position
    p_drbg,       \* derive_permutation: its DRBG
    sm_perm,      \* seed_manager.derive_permutation: the list being shuffled
    sm_i,         \* seed_manager.derive_permutation: loop index i
    sm_pc,        \* seed_manager.derive_permutation: position
    sm_drbg,      \* seed_manager.derive_permutation: its HmacCounterDRBG
    seed_client,  \* the client seed
    seed_pub,     \* the public seed
    stream,       \* HMAC-SHA256: the words of the counter stream of each key
    drbgs,        \* the DRBG objects constructed
    log,          \* history: per DRBG object, the words rand_u32 returned
    rcall,        \* the last randint call: arguments, counter before, outcome
    wcall,        \* a randint call followed through its rejection loop
    d_avg,        \* generate_graph_with_planted_cycle: argument d_avg
    g_pc,         \* generate_graph_with_planted_cycle: position
    g_rows,       \* generate_graph_with_planted_cycle: bm.rows
    g_i,          \* generate_graph_with_planted_cycle: planting index i
    g_added,      \* generate_graph_with_planted_cycle: added
    g_trials,     \* generate_graph_with_planted_cycle: trials
    g_drbg,       \* generate_graph_with_planted_cycle: drbg
    g_out,        \* the matrices the calls made so far have returned
    encFile,      \* <outpath>.enc
    saltFile,     \* <outpath>.salt
    metaFile,     \* <outpath>.meta.json
    enc_last,     \* history: the arguments of the last encrypt_seed call
    dec,          \* the last decrypt_seed call: argument, outcome
    bits,         \* the rows of a BitMatrix that set_bit is called on
    scall,        \* the last set_bit call: arguments, rows before
    hist          \* history of the session: what was pinned, message counts

configVars == <<sigma, bm, t_rounds, mode, nv>>
mailboxVars == <<commitsFile, challFile, openFile, resultFile>>
serverVars == <<s_pc, commits, s_session, rr, b, open_pkg, ok, detail, session_ok, msg>>
clientVars == <<c_pc, c_session, c_rr, challenge, nonces, c_res>>
attackerVars == <<a_pc, t, commit_pkg, ch, stats>>
client2Vars == <<d_pc, d_session, d_rr, d_challenge, d_nonces, d_res>>
permVars == <<perm, fy_i, p_pc, p_drbg, sm_perm, sm_i, sm_pc, sm_drbg>>
keyVars == <<seed_client, seed_pub, stream>>
drbgVars == <<drbgs, log, rcall, wcall>>
genVars == <<d_avg, g_pc, g_rows, g_i, g_added, g_trials, g_drbg, g_out>>
vaultVars == <<encFile, saltFile, metaFile, enc_last, dec>>
bitVars == <<bits, scall>>
libVars == <<permVars, keyVars, drbgVars, genVars, vaultVars, bitVars>>
protocolVars == <<mailboxVars, serverVars, clientVars, attackerVars, client2Vars, hist>>
vars == <<configVars, mailboxVars, serverVars, clientVars, attackerVars, client2Vars,
          libVars, hist>>

\* ------------------------------------------------------ values not yet set
NoPkg == [session |-> "", b |-> -1, opened_rows |-> <<>>, context |-> ""]
NoChallenge == [b |-> -1, session |-> "", round |-> 0]
NoCommitPkg == [session |-> "", commits |-> <<>>]
OkDetail == [text |-> "ok", idx |-> -1]
OkMsg == [text |-> "ok", round |-> 0, detail |-> OkDetail]
NoResult == [session |-> "", ok |-> FALSE, msg |-> OkMsg, rounds |-> 0]
\* no message of the session sent or read yet
NoHistory ==
    [pinned |-> NoCommitPkg, issued |-> 0, consumed |-> 0, passed |-> 0,
     results |-> 0, read |-> 0, opened |-> 0]

\* --------------------------------------------------------------- verifier
Fail(text, idx) == [ok |-> FALSE, detail |-> [text |-> text, idx |-> idx]]
Pass == [ok |-> TRUE, detail |-> OkDetail]

\* the hash the verifier recomputes for one opened entry
EntryHash(entry, ctx) ==
    Sha256Hex(FromHex(Get(entry, "row_hex", <<>>))
              \o FromHex(Get(entry, "nonce_hex", <<>>)) \o ctx)

\* the body of the loop over opened_rows: the checks made on one entry
VerifyEntry(commit_list, entry, ctx) ==
    IF "index" \notin DOMAIN entry
    THEN Fail("opened row missing index", -1)
    ELSE IF entry.index < 0 \/ entry.index >= Len(commit_list)
    THEN Fail("opened row index out of range", entry.index)
    ELSE IF EntryHash(entry, ctx) # commit_list[entry.index + 1]
    THEN Fail("row hash mismatch", entry.index)
    ELSE Pass

\* faulty variant: the loop returns after its first entry
VerifyEntries_FirstOnly(commit_list, opened, ctx, k) ==
    IF k > Len(opened) THEN Pass
    ELSE VerifyEntry(commit_list, opened[k], ctx)

\* the loop over opened_rows, from entry k on, returning at the first
\* failure: the verdict on the first entry that fails, if any
VerifyEntries(commit_list, opened, ctx, k) ==
    LET failing == {j \in k..Len(opened) : ~VerifyEntry(commit_list, opened[j], ctx).ok}
    IN  IF failing = {} THEN Pass
        ELSE VerifyEntry(commit_list,
                         opened[CHOOSE j \in failing : \A i \in failing : j <= i], ctx)

\* faulty variant: the duplicate test is missing
VerifyCycle_NoDuplicateTest(pkg, n_expected) ==
    LET present == "cycle_indices" \in DOMAIN pkg
        cycle == Get(pkg, "cycle_indices", <<>>)
    IN  IF ~present \/ cycle = <<>>
        THEN Fail("no cycle provided for b=1", -1)
        ELSE IF Len(cycle) > n_expected
        THEN Fail("cycle length larger than n", -1)
        ELSE Pass

\* the checks made on cycle_indices when b = 1
VerifyCycle(pkg, n_expected) ==
    LET present == "cycle_indices" \in DOMAIN pkg
        cycle == Get(pkg, "cycle_indices", <<>>)
    IN  IF ~present \/ cycle = <<>>
        THEN Fail("no cycle provided for b=1", -1)
        ELSE IF Cardinality({cycle[k] : k \in 1..Len(cycle)}) # Len(cycle)
        THEN Fail("cycle has duplicate vertices", -1)
        ELSE IF Len(cycle) > n_expected
        THEN Fail("cycle length larger than n", -1)
        ELSE Pass

verify_open(commit_list, pkg, n_expected) ==
    LET ctx == Encode(Get(pkg, "context", ""))
        rows == VerifyEntries(commit_list, Get(pkg, "opened_rows", <<>>), ctx, 1)
    IN  IF ~rows.ok THEN rows
        ELSE IF Get(pkg, "b", -1) = 1 THEN VerifyCycle(pkg, n_expected)
        ELSE Pass

\* the server waits for commit_package.json and pins its content
ServerReadCommits ==
    /\ s_pc = "wait_commits"
    /\ Complete(commitsFile)
    /\ commits' = Get(Doc(commitsFile), "commits", <<>>)
    /\ s_session' = Get(Doc(commitsFile), "session", "sess-unknown")
    /\ session_ok' = TRUE
    /\ msg' = OkMsg
    /\ rr' = 1
    /\ s_pc' = "round"
    /\ UNCHANGED <<b, open_pkg, ok, detail>>
    /\ UNCHANGED <<configVars, client2Vars, libVars, mailboxVars, clientVars, attackerVars>>
    /\ hist' = [hist EXCEPT !.pinned = Doc(commitsFile), !.issued = 0,
                            !.consumed = 0, !.passed = 0, !.results = 0]

\* random.choice([0,1]) and open(CHALL_FILE, "w"): the file exists, empty
ServerDrawChallenge ==
    /\ s_pc = "round"
    /\ \E bit \in {0, 1} : b' = bit
    /\ challFile' = Truncated
    /\ s_pc' = "chall_open"
    /\ UNCHANGED <<commits, s_session, rr, open_pkg, ok, detail, session_ok, msg>>
    /\ UNCHANGED <<configVars, client2Vars, libVars, commitsFile, openFile, resultFile, clientVars, attackerVars>>
    /\ UNCHANGED hist

\* json.dump, flush, fsync of the challenge
ServerWriteChallenge ==
    /\ s_pc = "chall_open"
    /\ challFile' = File([b |-> b, session |-> s_session, round |-> rr])
    /\ s_pc' = "await_open"
    /\ UNCHANGED <<commits, s_session, rr, b, open_pkg, ok, detail, session_ok, msg>>
    /\ UNCHANGED <<configVars, client2Vars, libVars, commitsFile, openFile, resultFile, clientVars, attackerVars>>
    /\ hist' = [hist EXCEPT !.issued = @ + 1]

\* faulty variant: COMMITS is read again when the OPEN of a round arrives
ServerVerify_RereadsCommits ==
    /\ s_pc = "await_open"
    /\ Complete(openFile)
    /\ open_pkg' = Doc(openFile)
    /\ commits' = IF Complete(commitsFile)
                  THEN Get(Doc(commitsFile), "commits", <<>>) ELSE <<>>
    /\ LET r == verify_open(commits', Doc(openFile), nv)
       IN  /\ ok' = r.ok /\ detail' = r.detail
           /\ hist' = [hist EXCEPT !.consumed = @ + 1,
                                   !.passed = IF r.ok THEN @ + 1 ELSE @]
    /\ s_pc' = "verified"
    /\ UNCHANGED <<s_session, rr, b, session_ok, msg>>
    /\ UNCHANGED <<configVars, client2Vars, libVars, mailboxVars, clientVars, attackerVars>>

\* load_json_when_ready(OPEN_FILE) returns, then verify_open
ServerVerify ==
    /\ s_pc = "await_open"
    /\ Complete(openFile)
    /\ open_pkg' = Doc(openFile)
    /\ LET r == verify_open(commits, Doc(openFile), nv)
       IN  ok' = r.ok /\ detail' = r.detail
    /\ s_pc' = "verified"
    /\ UNCHANGED <<commits, s_session, rr, b, session_ok, msg>>
    /\ UNCHANGED <<configVars, client2Vars, libVars, mailboxVars, clientVars, attackerVars>>
    /\ hist' = [hist EXCEPT !.consumed = @ + 1,
            !.passed = IF verify_open(commits, Doc(openFile), nv).ok THEN @ + 1 ELSE @]

\* faulty variant: the deadline expires but the session verdict is kept
ServerOpenTimeout_KeepsVerdict ==
    /\ s_pc = "await_open"
    /\ ~Complete(openFile)
    /\ msg' = [text |-> "timeout waiting open", round |-> rr, detail |-> OkDetail]
    /\ s_pc' = "result"
    /\ UNCHANGED <<commits, s_session, rr, b, open_pkg, ok, detail, session_ok>>
    /\ UNCHANGED <<configVars, client2Vars, libVars, mailboxVars, clientVars, attackerVars>>
    /\ UNCHANGED hist

\* load_json_when_ready gives up: the OPEN deadline expires
ServerOpenTimeout ==
    /\ s_pc = "await_open"
    /\ ~Complete(openFile)
    /\ session_ok' = FALSE
    /\ msg' = [text |-> "timeout waiting open", round |-> rr, detail |-> OkDetail]
    /\ s_pc' = "result"
    /\ UNCHANGED <<commits, s_session, rr, b, open_pkg, ok, detail>>
    /\ UNCHANGED <<configVars, client2Vars, libVars, mailboxVars, clientVars, attackerVars>>
    /\ UNCHANGED hist

\* faulty variant: a failed round is recorded but the loop goes on
ServerRoundEnd_NoBreak ==
    /\ s_pc = "verified"
    /\ openFile' = Absent
    /\ IF ~ok
       THEN /\ session_ok' = FALSE
            /\ msg' = [text |-> "round failed", round |-> rr, detail |-> detail]
       ELSE /\ UNCHANGED <<session_ok, msg>>
    /\ IF rr < t_rounds
       THEN rr' = rr + 1 /\ s_pc' = "round"
       ELSE rr' = rr /\ s_pc' = "result"
    /\ open_pkg' = NoPkg
    /\ ok' = FALSE
    /\ detail' = OkDetail
    /\ UNCHANGED <<commits, s_session, b>>
    /\ UNCHANGED <<configVars, client2Vars, libVars, commitsFile, challFile, resultFile, clientVars, attackerVars>>
    /\ UNCHANGED hist

\* os.remove(OPEN_FILE), then break on failure or go to the next round;
\* open_pkg, ok and detail are dead after this point and are cleared
ServerRoundEnd ==
    /\ s_pc = "verified"
    /\ openFile' = Absent
    /\ IF ~ok
       THEN /\ session_ok' = FALSE
            /\ msg' = [text |-> "round failed", round |-> rr, detail |-> detail]
            /\ s_pc' = "result"
            /\ rr' = rr
       ELSE /\ UNCHANGED <<session_ok, msg>>
            /\ IF rr < t_rounds
               THEN rr' = rr + 1 /\ s_pc' = "round"
               ELSE rr' = rr /\ s_pc' = "result"
    /\ open_pkg' = NoPkg
    /\ ok' = FALSE
    /\ detail' = OkDetail
    /\ UNCHANGED <<commits, s_session, b>>
    /\ UNCHANGED <<configVars, client2Vars, libVars, commitsFile, challFile, resultFile, clientVars, attackerVars>>
    /\ UNCHANGED hist

\* open(RESULT_FILE, "w"): the file exists, empty
ServerOpenResult ==
    /\ s_pc = "result"
    /\ resultFile' = Truncated
    /\ s_pc' = "result_open"
    /\ UNCHANGED <<commits, s_session, rr, b, open_pkg, ok, detail, session_ok, msg>>
    /\ UNCHANGED <<configVars, client2Vars, libVars, commitsFile, challFile, openFile, clientVars, attackerVars>>
    /\ UNCHANGED hist

\* json.dump, flush, fsync of the result
ServerWriteResult ==
    /\ s_pc = "result_open"
    /\ resultFile' = File([session |-> s_session, ok |-> session_ok,
                           msg |-> msg, rounds |-> t_rounds])
    /\ s_pc' = "cleanup"
    /\ UNCHANGED <<commits, s_session, rr, b, open_pkg, ok, detail, session_ok, msg>>
    /\ UNCHANGED <<configVars, client2Vars, libVars, commitsFile, challFile, openFile, clientVars, attackerVars>>
    /\ hist' = [hist EXCEPT !.results = @ + 1]

\* the session files are removed and the server waits for the next session
ServerCleanup ==
    /\ s_pc = "cleanup"
    /\ commitsFile' = Absent
    /\ challFile' = Absent
    /\ openFile' = Absent
    /\ s_pc' = "wait_commits"
    /\ UNCHANGED <<commits, s_session, rr, b, open_pkg, ok, detail, session_ok, msg>>
    /\ UNCHANGED <<configVars, client2Vars, libVars, resultFile, clientVars, attackerVars>>
    /\ UNCHANGED hist

\* ----------------------------------------------------------- honest prover
\* one opened_rows entry for row idx
OpenedRow(rows, nn, idx) ==
    [index |-> idx, row_hex |-> Hex(rows[idx]), nonce_hex |-> Hex(nn[idx + 1])]

\* faulty variant: for b = 1 the nonce is taken by position, not by vertex
HonestOpen_NonceByPosition(session, bit, sg, rows, nn) ==
    IF bit = 1
    THEN [session |-> session, b |-> bit, context |-> "row-commit",
          opened_rows |-> [k \in 1..Min(OpenLimit, nv) |->
              [index |-> sg[k], row_hex |-> Hex(rows[sg[k]]), nonce_hex |-> Hex(nn[k])]],
          cycle_indices |-> SubSeq(sg, 1, Min(CycleLimit, nv))]
    ELSE [session |-> session, b |-> bit, context |-> "row-commit",
          opened_rows |-> [k \in 1..nv |-> OpenedRow(rows, nn, k - 1)]]

\* the OPEN the honest client builds for challenge bit "bit"
HonestOpen(session, bit, sg, rows, nn) ==
    IF bit = 1
    THEN [session |-> session, b |-> bit, context |-> "row-commit",
          opened_rows |-> [k \in 1..Min(OpenLimit, nv) |-> OpenedRow(rows, nn, sg[k])],
          cycle_indices |-> SubSeq(sg, 1, Min(CycleLimit, nv))]
    ELSE [session |-> session, b |-> bit, context |-> "row-commit",
          opened_rows |-> [k \in 1..nv |-> OpenedRow(rows, nn, k - 1)]]

\* faulty variant: any round of the own session is accepted
ChallengeAccepted_AnyRound(chal, session_id, round_expected) ==
    Get(chal, "session", "") = session_id

\* wait_for_challenge's test of a parsed challenge
ChallengeAccepted(chal, session_id, round_expected) ==
    /\ Get(chal, "session", "") = session_id
    /\ (Get(chal, "round", 0) = round_expected \/ Get(chal, "round", 0) >= round_expected)

\* steps 4-7: session id, commits, COMMITS written atomically
ClientStart ==
    /\ c_pc = "start"
    /\ LET cm == commit_matrix_rows(bm, SessionSeed("honest-1"))
       IN  /\ nonces' = cm.nonces
           /\ commitsFile' = File([session |-> "honest-1", commits |-> HexAll(cm.commits)])
    /\ c_session' = "honest-1"
    /\ c_rr' = 1
    /\ c_pc' = "wait_challenge"
    /\ UNCHANGED <<challenge, c_res>>
    /\ UNCHANGED <<configVars, client2Vars, libVars, challFile, openFile, resultFile, serverVars, attackerVars>>
    /\ hist' = [hist EXCEPT !.read = 0, !.opened = 0]

\* wait_for_challenge returns a challenge
ClientGotChallenge ==
    /\ c_pc = "wait_challenge"
    /\ Complete(challFile)
    /\ ChallengeAccepted(Doc(challFile), c_session, c_rr)
    /\ challenge' = Doc(challFile)
    /\ c_pc' = "answer"
    /\ UNCHANGED <<c_session, c_rr, nonces, c_res>>
    /\ UNCHANGED <<configVars, client2Vars, libVars, mailboxVars, serverVars, attackerVars>>
    /\ hist' = [hist EXCEPT !.read = @ + 1]

\* wait_for_challenge returns None: the CHALLENGE deadline expires
ClientChallengeTimeout ==
    /\ c_pc = "wait_challenge"
    /\ ~(Complete(challFile) /\ ChallengeAccepted(Doc(challFile), c_session, c_rr))
    /\ c_pc' = "wait_result"
    /\ UNCHANGED <<c_session, c_rr, challenge, nonces, c_res>>
    /\ UNCHANGED <<configVars, client2Vars, libVars, mailboxVars, serverVars, attackerVars>>
    /\ UNCHANGED hist

\* the OPEN of the round is built and written atomically
ClientWriteOpen ==
    /\ c_pc = "answer"
    /\ openFile' = File(HonestOpen(c_session, Get(challenge, "b", -1), sigma, bm, nonces))
    /\ IF c_rr < t_rounds
       THEN c_rr' = c_rr + 1 /\ c_pc' = "wait_challenge"
       ELSE c_rr' = c_rr /\ c_pc' = "wait_result"
    /\ UNCHANGED <<c_session, challenge, nonces, c_res>>
    /\ UNCHANGED <<configVars, client2Vars, libVars, commitsFile, challFile, resultFile, serverVars, attackerVars>>
    /\ hist' = [hist EXCEPT !.opened = @ + 1]

\* wait_for_file(RESULT_FILE) returns True; json.load raises on an empty
\* file, else the result is read and RESULT and COMMITS are removed
ClientReadResult ==
    /\ c_pc = "wait_result"
    /\ resultFile.exists
    /\ IF Complete(resultFile)
       THEN /\ c_res' = Doc(resultFile)
            /\ resultFile' = Absent
            /\ commitsFile' = Absent
            /\ c_pc' = "done"
       ELSE /\ c_pc' = "crashed"
            /\ UNCHANGED <<c_res, resultFile, commitsFile>>
    /\ UNCHANGED <<c_session, c_rr, challenge, nonces>>
    /\ UNCHANGED <<configVars, client2Vars, libVars, challFile, openFile, serverVars, attackerVars>>
    /\ UNCHANGED hist

\* wait_for_file(RESULT_FILE) returns False: the RESULT deadline expires
ClientResultTimeout ==
    /\ c_pc = "wait_result"
    /\ ~resultFile.exists
    /\ commitsFile' = Absent
    /\ c_pc' = "done"
    /\ UNCHANGED <<c_session, c_rr, challenge, nonces, c_res>>
    /\ UNCHANGED <<configVars, client2Vars, libVars, challFile, openFile, resultFile, serverVars, attackerVars>>
    /\ UNCHANGED hist

\* ------------------------------------------- a second honest prover
\* client_session run a second time, under the session id "honest-2", on
\* the same files
Client2Start ==
    /\ d_pc = "start"
    /\ LET cm == commit_matrix_rows(bm, SessionSeed("honest-2"))
       IN  /\ d_nonces' = cm.nonces
           /\ commitsFile' = File([session |-> "honest-2", commits |-> HexAll(cm.commits)])
    /\ d_session' = "honest-2"
    /\ d_rr' = 1
    /\ d_pc' = "wait_challenge"
    /\ UNCHANGED <<d_challenge, d_res>>
    /\ UNCHANGED <<configVars, libVars, challFile, openFile, resultFile>>
    /\ UNCHANGED <<serverVars, clientVars, attackerVars, hist>>

Client2GotChallenge ==
    /\ d_pc = "wait_challenge"
    /\ Complete(challFile)
    /\ ChallengeAccepted(Doc(challFile), d_session, d_rr)
    /\ d_challenge' = Doc(challFile)
    /\ d_pc' = "answer"
    /\ UNCHANGED <<d_session, d_rr, d_nonces, d_res>>
    /\ UNCHANGED <<configVars, libVars, mailboxVars, serverVars, clientVars, attackerVars, hist>>

Client2ChallengeTimeout ==
    /\ d_pc = "wait_challenge"
    /\ ~(Complete(challFile) /\ ChallengeAccepted(Doc(challFile), d_session, d_rr))
    /\ d_pc' = "wait_result"
    /\ UNCHANGED <<d_session, d_rr, d_challenge, d_nonces, d_res>>
    /\ UNCHANGED <<configVars, libVars, mailboxVars, serverVars, clientVars, attackerVars, hist>>

Client2WriteOpen ==
    /\ d_pc = "answer"
    /\ openFile' = File(HonestOpen(d_session, Get(d_challenge, "b", -1), sigma, bm, d_nonces))
    /\ IF d_rr < t_rounds
       THEN d_rr' = d_rr + 1 /\ d_pc' = "wait_challenge"
       ELSE d_rr' = d_rr /\ d_pc' = "wait_result"
    /\ UNCHANGED <<d_session, d_challenge, d_nonces, d_res>>
    /\ UNCHANGED <<configVars, libVars, commitsFile, challFile, resultFile>>
    /\ UNCHANGED <<serverVars, clientVars, attackerVars, hist>>

Client2ReadResult ==
    /\ d_pc = "wait_result"
    /\ resultFile.exists
    /\ IF Complete(resultFile)
       THEN /\ d_res' = Doc(resultFile)
            /\ resultFile' = Absent
            /\ commitsFile' = Absent
            /\ d_pc' = "done"
       ELSE /\ d_pc' = "crashed"
            /\ UNCHANGED <<d_res, resultFile, commitsFile>>
    /\ UNCHANGED <<d_session, d_rr, d_challenge, d_nonces>>
    /\ UNCHANGED <<configVars, libVars, challFile, openFile>>
    /\ UNCHANGED <<serverVars, clientVars, attackerVars, hist>>

Client2ResultTimeout ==
    /\ d_pc = "wait_result"
    /\ ~resultFile.exists
    /\ commitsFile' = Absent
    /\ d_pc' = "done"
    /\ UNCHANGED <<d_session, d_rr, d_challenge, d_nonces, d_res>>
    /\ UNCHANGED <<configVars, libVars, challFile, openFile, resultFile>>
    /\ UNCHANGED <<serverVars, clientVars, attackerVars, hist>>

\* ------------------------------------------------------- attacker harness
Modes == {"random", "bad_nonce", "tamper_row", "bad_cycle"}

\* enroll_manifest.json "commits_all": the enrollment commits
ManifestCommits(rows) ==
    HexAll(commit_matrix_rows(rows, SessionSeed("enroll-session")).commits)

\* b[pos] ^= 0xFF
TamperRow(row, pos) == [row EXCEPT ![pos] = 255 - @]

ForgeSession(pkg) == Get(pkg, "session", "attacker-session")

forge_open_bad_nonce(pkg, rows) ==
    [session |-> ForgeSession(pkg), b |-> 1, context |-> "row-commit",
     opened_rows |-> [k \in 1..Min(ForgePicks, Len(pkg.commits)) |->
        [index |-> k - 1, row_hex |-> Hex(rows[k - 1]), nonce_hex |-> Hex(RandomNonce)]]]

forge_open_tamper_row(pkg, rows, pos) ==
    [session |-> ForgeSession(pkg), b |-> 1, context |-> "row-commit",
     opened_rows |-> [k \in 1..Min(ForgePicks, Len(pkg.commits)) |->
        [index |-> k - 1, row_hex |-> Hex(TamperRow(rows[k - 1], pos)),
         nonce_hex |-> Hex(RandomNonce)]]]

forge_open_bad_cycle(pkg, rows) ==
    [session |-> ForgeSession(pkg), b |-> 1, context |-> "row-commit",
     opened_rows |-> [k \in 1..Min(ForgePicks, Len(pkg.commits)) |->
        [index |-> k - 1, row_hex |-> Hex(rows[k - 1]), nonce_hex |-> Hex(RandomNonce)]],
     cycle_indices |-> <<0, 1, 2, 2, 4>>]

\* the small wrong open sent for b = 0
ForgeOpenZero(pkg) ==
    [session |-> ForgeSession(pkg), b |-> 0, perm |-> <<0>>,
     opened_rows |-> <<>>, context |-> "row-commit"]

\* the packages main may write for challenge bit "bit" under mode "m"
AttackerOpens(m, bit, pkg, rows) ==
    IF bit = 0 THEN {ForgeOpenZero(pkg)}
    ELSE (IF m \in {"bad_nonce", "random"} THEN {forge_open_bad_nonce(pkg, rows)} ELSE {})
         \cup (IF m \in {"tamper_row", "random"}
               THEN {forge_open_tamper_row(pkg, rows, pos) : pos \in 1..row_bytes(nv)}
               ELSE {})
         \cup (IF m \in {"bad_cycle", "random"} THEN {forge_open_bad_cycle(pkg, rows)} ELSE {})

\* the end of a trial: the session files are removed, then the next trial
AttackerNextTrial ==
    /\ commitsFile' = Absent
    /\ IF t + 1 < MaxTrials
       THEN t' = t + 1 /\ a_pc' = "trial"
       ELSE t' = t /\ a_pc' = "done"

\* ensure_commit_package, then COMMITS is read back
AttackerEnsureCommits ==
    /\ a_pc = "trial"
        /\ LET f == IF commitsFile.exists THEN commitsFile
                ELSE File([session |-> "attacker-session", commits |-> ManifestCommits(bm)])
       IN  commitsFile' = f /\ commit_pkg' = Doc(f)
    /\ a_pc' = "wait_challenge"
    /\ UNCHANGED <<t, ch, stats>>
    /\ UNCHANGED <<configVars, client2Vars, libVars, challFile, openFile, resultFile, serverVars, clientVars>>
    /\ UNCHANGED hist

\* wait_for_file(CHALL_FILE) returns True; json.load raises on an empty file
AttackerGotChallenge ==
    /\ a_pc = "wait_challenge"
    /\ challFile.exists
    /\ IF Complete(challFile)
       THEN ch' = Doc(challFile) /\ a_pc' = "forge"
       ELSE ch' = ch /\ a_pc' = "crashed"
    /\ UNCHANGED <<t, commit_pkg, stats>>
    /\ UNCHANGED <<configVars, client2Vars, libVars, mailboxVars, serverVars, clientVars>>
    /\ UNCHANGED hist

\* wait_for_file(CHALL_FILE) returns False: no challenge, next trial
AttackerChallengeTimeout ==
    /\ a_pc = "wait_challenge"
    /\ ~challFile.exists
    /\ stats' = [stats EXCEPT !.no_result = @ + 1]
    /\ AttackerNextTrial
    /\ UNCHANGED <<commit_pkg, ch>>
    /\ UNCHANGED <<configVars, client2Vars, libVars, challFile, openFile, resultFile, serverVars, clientVars>>
    /\ UNCHANGED hist

\* the forged OPEN is written atomically
AttackerWriteOpen ==
    /\ a_pc = "forge"
    /\ \E pkg \in AttackerOpens(mode, Get(ch, "b", -1), commit_pkg, bm) :
          openFile' = File(pkg)
    /\ a_pc' = "wait_result"
    /\ UNCHANGED <<t, commit_pkg, ch, stats>>
    /\ UNCHANGED <<configVars, client2Vars, libVars, commitsFile, challFile, resultFile, serverVars, clientVars>>
    /\ UNCHANGED hist

\* the RESULT is read and counted, RESULT and the session files are removed
AttackerReadResult ==
    /\ a_pc = "wait_result"
    /\ resultFile.exists
    /\ IF Complete(resultFile)
       THEN /\ stats' = IF Get(Doc(resultFile), "ok", FALSE)
                        THEN [stats EXCEPT !.accepted = @ + 1]
                        ELSE [stats EXCEPT !.rejected = @ + 1]
            /\ resultFile' = Absent
            /\ challFile' = Absent
            /\ openFile' = Absent
            /\ AttackerNextTrial
       ELSE /\ a_pc' = "crashed"
            /\ UNCHANGED <<stats, t, mailboxVars>>
    /\ UNCHANGED <<commit_pkg, ch>>
    /\ UNCHANGED <<configVars, client2Vars, libVars, serverVars, clientVars>>
    /\ UNCHANGED hist

\* wait_for_file(RESULT_FILE) returns False: no result, files removed
AttackerResultTimeout ==
    /\ a_pc = "wait_result"
    /\ ~resultFile.exists
    /\ stats' = [stats EXCEPT !.no_result = @ + 1]
    /\ challFile' = Absent
    /\ openFile' = Absent
    /\ AttackerNextTrial
    /\ UNCHANGED <<commit_pkg, ch, resultFile>>
    /\ UNCHANGED <<configVars, client2Vars, libVars, serverVars, clientVars>>
    /\ UNCHANGED hist

\* ------------------------------------------- a prover sending any OPEN
\* the OPEN packages a dishonest prover of session "honest-1" is given to
\* send: rows and nonces genuine or not, any index, any cycle
SeqsUpTo(S, k) == UNION {[1..m -> S] : m \in 0..k}

ForgedEntries ==
    LET seed == SessionSeed("honest-1")
    IN  {[index |-> i, row_hex |-> Hex(bm[i]), nonce_hex |-> Hex(RowNonce(seed, i))]
            : i \in {0, 1}}
        \cup {[index |-> 0, row_hex |-> Hex(TamperRow(bm[0], 1)),
               nonce_hex |-> Hex(RowNonce(seed, 0))],
              [index |-> 0, row_hex |-> Hex(bm[0]), nonce_hex |-> Hex(RandomNonce)]}
        \cup {[index |-> i, row_hex |-> Hex(bm[0]), nonce_hex |-> Hex(RowNonce(seed, 0))]
            : i \in {-1, n}}

ForgedCycles ==
    {c \in SeqsUpTo({0, 1, n}, 2) : TRUE}
    \cup {sigma, [k \in 1..(n + 1) |-> k - 1]}

ForgedHeaders ==
    {[session |-> "honest-1", context |-> "row-commit"],
     [session |-> "honest-1", context |-> "other-context"],
     [session |-> "other-session", context |-> "row-commit"]}

ForgedOpens ==
    {[session |-> h.session, b |-> bit, context |-> h.context, opened_rows |-> o]
        : h \in ForgedHeaders, bit \in {0, 1}, o \in SeqsUpTo(ForgedEntries, MaxOpened)}
    \cup
    {[session |-> h.session, b |-> 1, context |-> h.context, opened_rows |-> o,
      cycle_indices |-> c]
        : h \in ForgedHeaders, o \in SeqsUpTo(ForgedEntries, MaxOpened),
          c \in ForgedCycles}
    \cup
    {HonestOpen("honest-1", bit, sigma, bm, nonces) : bit \in {0, 1}}

\* a forged OPEN is put in the mailbox while the verifier waits for one
ProverSendOpen ==
    /\ s_pc = "await_open"
    /\ ~openFile.exists
    /\ \E pkg \in ForgedOpens : openFile' = File(pkg)
    /\ UNCHANGED <<configVars, client2Vars, libVars, commitsFile, challFile, resultFile>>
    /\ UNCHANGED <<serverVars, clientVars, attackerVars>>
    /\ UNCHANGED hist

\* -------------------------------------------------------------- HMAC, HKDF
\* hmac.new(key, data, sha256).digest(), collision free: the pair under a tag
Hmac(key, data) == [hmac_key |-> key, data |-> data]

hkdf_extract(salt, ikm) == Hmac(salt, ikm)

\* hkdf_expand(prk, info, 32): 32 bytes are one digest, so the loop runs once
\* with t = b"" and counter = 1, and okm[:32] is that digest
hkdf_expand(prk, info) == Hmac(prk, <<"", info, 1>>)

\* matrix_graph.hkdf(ikm, salt, info, 32)
hkdf(ikm, salt, info) == hkdf_expand(hkdf_extract(salt, ikm), info)

\* seed_manager.derive_prng_key with its default context
derive_prng_key(sc, sp) == hkdf_expand(hkdf_extract(sp, sc), "ham-prng")

\* the key matrix_graph.derive_permutation derives with its default context
PermKey(sc, sp) == hkdf(sc, sp, "ham-perm")

\* --------------------------------------------------------------------- DRBG
\* A 32-bit word is the pair <<high, low>> of its 16-bit halves, its value
\* high * 2^16 + low: 2^32 itself is beyond the integers at hand, so the
\* arithmetic of randint is carried out on the halves.
Half == 65536

\* the words of a stream that are explored: small ones, and two at the top of
\* the range, 2^32 - 1 and 2^32 - 4, which the rejection test can refuse
LowWords == {<<0, k>> : k \in 0..MaxWord}
TopWords == {<<Half - 1, Half - 1>>, <<Half - 1, Half - 4>>}
Words == LowWords \cup TopWords

\* the streams explored repeat a pattern of the given length; a pattern has
\* a small word, so that a rejection loop meets a word it accepts
PatternsOver(words, len) ==
    {p \in [1..len -> words] : \E k \in 1..len : p[k] \in LowWords}
Patterns(len) == PatternsOver(Words, len)

\* int.from_bytes(hmac.new(key, pack(">Q", counter), sha256).digest()[:4], "big")
Word(key, counter) == stream[key][(counter % Len(stream[key])) + 1]

\* DRBG.__init__
DRBG(key) == [key |-> key, counter |-> 0]

\* faulty variant: the counter is left where it was
rand_u32_NoIncrement(d) == [out |-> Word(d.key, d.counter), drbg |-> d]

\* rand_u32: the word of the current counter; the counter moves on by one
rand_u32(d) ==
    [out |-> Word(d.key, d.counter), drbg |-> [d EXCEPT !.counter = @ + 1]]

\* r % size for a word r and 0 < size
WordMod(w, size) == ((w[1] % size) * (Half % size) + (w[2] % size)) % size

\* (1 << 32) % size
TwoTo32Mod(size) == ((Half % size) * (Half % size)) % size

\* t = (1 << 32) - ((1 << 32) % size), as halves; <<Half, 0>> stands for 2^32
Threshold(size) ==
    LET m == TwoTo32Mod(size)
    IN  IF m = 0 THEN <<Half, 0>>
        ELSE <<Half - 1 - ((m - 1) \div Half), Half - 1 - ((m - 1) % Half)>>

\* r >= t
WordGE(w, th) == w[1] > th[1] \/ (w[1] = th[1] /\ w[2] >= th[2])

RECURSIVE Draw(_, _, _)
\* faulty variant: the first word is taken whatever its value
Draw_NoRejection(d, th, drawn) ==
    LET s == rand_u32(d)
    IN  [out |-> s.out, drbg |-> s.drbg, drawn |-> Append(drawn, s.out)]

\* r = rand_u32(); while r >= t: r = rand_u32().  drawn lists every word
\* rand_u32 returned on the way, the accepted one last
Draw(d, th, drawn) ==
    LET s == rand_u32(d)
    IN  IF WordGE(s.out, th) THEN Draw(s.drbg, th, Append(drawn, s.out))
        ELSE [out |-> s.out, drbg |-> s.drbg, drawn |-> Append(drawn, s.out)]

\* DRBG.randint(lo, hi) and HmacCounterDRBG.randint(lo, hi): the value
\* returned or the exception raised, the DRBG afterwards, the words drawn
randint(d, lo, hi) ==
    LET size == hi - lo + 1
    IN  IF size <= 0
        THEN [raised |-> "ValueError", value |-> lo, drbg |-> d, drawn |-> <<>>]
        ELSE LET s == Draw(d, Threshold(size), <<>>)
             IN  [raised |-> "", value |-> lo + WordMod(s.out, size),
                  drbg |-> s.drbg, drawn |-> s.drawn]

\* no DRBG object, no call yet
NoDrbg == [key |-> "", counter |-> -1]
Made(d) == d.counter >= 0
NoCall == [obj |-> 0, lo |-> 0, hi |-> 0, before |-> NoDrbg,
           res |-> [raised |-> "", value |-> 0, drbg |-> NoDrbg, drawn |-> <<>>]]
Objects == 1..2
\* the ranges asked of randint: proper, one value, empty
RangeChoices == {<<0, 0>>, <<0, 2>>, <<1, 5>>, <<-1, 5>>, <<2, 1>>, <<1, -1>>}

\* drbg = DRBG(key)
DrbgNew(o, key) ==
    /\ ~Made(drbgs[o])
    /\ drbgs' = [drbgs EXCEPT ![o] = DRBG(key)]
    /\ UNCHANGED <<log, rcall, wcall>>
    /\ UNCHANGED <<configVars, protocolVars, bitVars, vaultVars, permVars, keyVars, genVars>>

\* drbg.rand_u32()
DrbgRandU32(o) ==
    /\ Made(drbgs[o])
    /\ drbgs[o].counter < MaxCalls
    /\ LET s == rand_u32(drbgs[o])
       IN  /\ drbgs' = [drbgs EXCEPT ![o] = s.drbg]
           /\ log' = [log EXCEPT ![o] = Append(@, s.out)]
    /\ UNCHANGED <<rcall, wcall>>
    /\ UNCHANGED <<configVars, protocolVars, bitVars, vaultVars, permVars, keyVars, genVars>>

\* drbg.randint(lo, hi)
DrbgRandint(o, lo, hi) ==
    /\ Made(drbgs[o])
    /\ drbgs[o].counter < MaxCalls
    /\ LET res == randint(drbgs[o], lo, hi)
       IN  /\ drbgs' = [drbgs EXCEPT ![o] = res.drbg]
           /\ log' = [log EXCEPT ![o] = @ \o res.drawn]
           /\ rcall' = [obj |-> o, lo |-> lo, hi |-> hi, before |-> drbgs[o],
                        res |-> res]
    /\ UNCHANGED wcall
    /\ UNCHANGED <<configVars, protocolVars, bitVars, vaultVars, permVars, keyVars, genVars>>

\* ------------------------------------------- randint, one step at a time
\* The same randint followed through its loop, for a range of any size.  A
\* Python integer has no width: the size b - a + 1 of a range is held as
\* over * 2^32 + low, which reaches the sizes beyond the 32 bits of a word.
Wide(over, low) == [over |-> over, low |-> low]
\* n <= 0, n <= 2^32
NotPositive(size) == size.over = 0 /\ size.low <= 0
UpToTwoTo32(size) == size.over = 0 \/ (size.over = 1 /\ size.low = 0)

\* the sizes asked: none, 1, 3, 5, 2^16, 2^32, 2^32 + 1, 2^33 + 3
RangeSizes ==
    {Wide(0, 0), Wide(0, 1), Wide(0, 3), Wide(0, 5), Wide(0, Half),
     Wide(1, 0), Wide(1, 1), Wide(2, 3)}

\* faulty variant: t = (1 << 32) % n
ThresholdOf_Remainder(size) ==
    IF size.over = 0
    THEN <<TwoTo32Mod(size.low) \div Half, TwoTo32Mod(size.low) % Half>>
    ELSE IF size.over = 1 /\ size.low = 0 THEN <<0, 0>>
    ELSE <<Half, 0>>

\* t = (1 << 32) - ((1 << 32) % n) for 0 < n: 2^32 % n is 0 for n = 2^32
\* and 2^32 itself for every larger n, which leaves t = 0
ThresholdOf(size) ==
    IF size.over = 0 THEN Threshold(size.low)
    ELSE IF size.over = 1 /\ size.low = 0 THEN <<Half, 0>>
    ELSE <<0, 0>>

\* r % n, as a word: r itself when n >= 2^32
Remainder(w, size) ==
    IF size.over = 0
    THEN <<WordMod(w, size.low) \div Half, WordMod(w, size.low) % Half>>
    ELSE w

\* no call followed yet
NoLoop == [pc |-> "idle", obj |-> 0, lo |-> 0, size |-> Wide(0, 0),
           th |-> <<0, 0>>, before |-> NoDrbg, drawn |-> <<>>,
           rem |-> <<0, 0>>]

\* drbg.randint(lo, lo + size - 1) is entered: n <= 0 raises; otherwise t
\* is computed and the first word drawn
RandintEnter(o, lo, size) ==
    /\ Made(drbgs[o])
    /\ wcall.pc # "loop"
    /\ drbgs[o].counter < MaxCalls
    /\ IF NotPositive(size)
       THEN /\ wcall' = [NoLoop EXCEPT !.pc = "raised", !.obj = o, !.lo = lo,
                                       !.size = size, !.before = drbgs[o]]
            /\ UNCHANGED <<drbgs, log>>
       ELSE LET s == rand_u32(drbgs[o])
            IN  /\ wcall' = [NoLoop EXCEPT !.pc = "loop", !.obj = o, !.lo = lo,
                                           !.size = size, !.before = drbgs[o],
                                           !.th = ThresholdOf(size),
                                           !.drawn = <<s.out>>]
                /\ drbgs' = [drbgs EXCEPT ![o] = s.drbg]
                /\ log' = [log EXCEPT ![o] = Append(@, s.out)]
    /\ UNCHANGED rcall
    /\ UNCHANGED <<configVars, protocolVars, bitVars, vaultVars, permVars, keyVars, genVars>>

\* while r >= t: r = self.rand_u32()
RandintReject ==
    /\ wcall.pc = "loop"
    /\ WordGE(wcall.drawn[Len(wcall.drawn)], wcall.th)
    /\ Len(wcall.drawn) <= MaxRejects
    /\ LET s == rand_u32(drbgs[wcall.obj])
       IN  /\ wcall' = [wcall EXCEPT !.drawn = Append(@, s.out)]
           /\ drbgs' = [drbgs EXCEPT ![wcall.obj] = s.drbg]
           /\ log' = [log EXCEPT ![wcall.obj] = Append(@, s.out)]
    /\ UNCHANGED rcall
    /\ UNCHANGED <<configVars, protocolVars, bitVars, vaultVars, permVars, keyVars, genVars>>

\* r < t: return a + (r % n); the sum is held as lo and rem
RandintReturn ==
    /\ wcall.pc = "loop"
    /\ ~WordGE(wcall.drawn[Len(wcall.drawn)], wcall.th)
    /\ wcall' = [wcall EXCEPT !.pc = "returned",
                              !.rem = Remainder(wcall.drawn[Len(wcall.drawn)],
                                                wcall.size)]
    /\ UNCHANGED <<drbgs, log, rcall>>
    /\ UNCHANGED <<configVars, protocolVars, bitVars, vaultVars, permVars, keyVars, genVars>>

\* ------------------------------------------------------ derive_permutation
\* faulty variant: perm[i] = perm[j], the old perm[i] is lost
SwapEntries_Overwrite(p, i, j) == [p EXCEPT ![i + 1] = p[j + 1]]

\* perm[i], perm[j] = perm[j], perm[i]
SwapEntries(p, i, j) == [p EXCEPT ![i + 1] = p[j + 1], ![j + 1] = p[i + 1]]

\* matrix_graph.derive_permutation: key, drbg = DRBG(key),
\* perm = list(range(n)); the loop starts at i = n - 1
PermStart ==
    /\ p_pc = "idle"
    /\ p_drbg' = DRBG(PermKey(seed_client, seed_pub))
    /\ perm' = [k \in 1..nv |-> k - 1]
    /\ fy_i' = nv - 1
    /\ p_pc' = "loop"
    /\ UNCHANGED <<sm_perm, sm_i, sm_pc, sm_drbg>>
    /\ UNCHANGED <<configVars, protocolVars, bitVars, vaultVars, keyVars, drbgVars, genVars>>

\* one pass of the loop: j = drbg.randint(0, i), swap, next i
PermSwap ==
    /\ p_pc = "loop"
    /\ fy_i >= 1
    /\ LET res == randint(p_drbg, 0, fy_i)
       IN  /\ res.raised = ""
           /\ perm' = SwapEntries(perm, fy_i, res.value)
           /\ p_drbg' = res.drbg
    /\ fy_i' = fy_i - 1
    /\ UNCHANGED p_pc
    /\ UNCHANGED <<sm_perm, sm_i, sm_pc, sm_drbg>>
    /\ UNCHANGED <<configVars, protocolVars, bitVars, vaultVars, keyVars, drbgVars, genVars>>

\* range(n - 1, 0, -1) is exhausted: return perm
PermReturn ==
    /\ p_pc = "loop"
    /\ fy_i < 1
    /\ p_pc' = "done"
    /\ UNCHANGED <<perm, fy_i, p_drbg>>
    /\ UNCHANGED <<sm_perm, sm_i, sm_pc, sm_drbg>>
    /\ UNCHANGED <<configVars, protocolVars, bitVars, vaultVars, keyVars, drbgVars, genVars>>

\* seed_manager.derive_permutation, called once the other has returned:
\* key = derive_prng_key(...), drbg = HmacCounterDRBG(key), perm = list(range(n))
SmPermStart ==
    /\ p_pc = "done"
    /\ sm_pc = "idle"
    /\ sm_drbg' = DRBG(derive_prng_key(seed_client, seed_pub))
    /\ sm_perm' = [k \in 1..nv |-> k - 1]
    /\ sm_i' = nv - 1
    /\ sm_pc' = "loop"
    /\ UNCHANGED <<perm, fy_i, p_pc, p_drbg>>
    /\ UNCHANGED <<configVars, protocolVars, bitVars, vaultVars, keyVars, drbgVars, genVars>>

SmPermSwap ==
    /\ sm_pc = "loop"
    /\ sm_i >= 1
    /\ LET res == randint(sm_drbg, 0, sm_i)
       IN  /\ res.raised = ""
           /\ sm_perm' = SwapEntries(sm_perm, sm_i, res.value)
           /\ sm_drbg' = res.drbg
    /\ sm_i' = sm_i - 1
    /\ UNCHANGED sm_pc
    /\ UNCHANGED <<perm, fy_i, p_pc, p_drbg>>
    /\ UNCHANGED <<configVars, protocolVars, bitVars, vaultVars, keyVars, drbgVars, genVars>>

SmPermReturn ==
    /\ sm_pc = "loop"
    /\ sm_i < 1
    /\ sm_pc' = "done"
    /\ UNCHANGED <<sm_perm, sm_i, sm_drbg>>
    /\ UNCHANGED <<perm, fy_i, p_pc, p_drbg>>
    /\ UNCHANGED <<configVars, protocolVars, bitVars, vaultVars, keyVars, drbgVars, genVars>>

\* ------------------------------------- generate_graph_with_planted_cycle
\* int(x / y) for y > 0: truncation towards zero
Trunc(x, y) == IF x >= 0 THEN x \div y ELSE -((-x) \div y)

\* target_edges = int(n * d_avg / 2), d_avg the fraction num / den
target_edges(size, d) == Trunc(size * d.num, 2 * d.den)

\* the default d_avg = 4.0
DefaultDAvg == [num |-> 4, den |-> 1]

\* max_trials = n * 50
max_trials(size) == size * TrialsPerVertex

\* key = hkdf(seed_pub, b"\x00" * 32, b"noise-edges", 32)
NoiseKey(sp) == hkdf(sp, [k \in 1..32 |-> 0], "noise-edges")

\* bm = BitMatrix(n); the planting loop starts at i = 0
GenStart ==
    /\ g_pc = "idle"
    /\ Len(g_out) < 2
    /\ g_rows' = EmptyMatrix(nv)
    /\ g_i' = 0
    /\ g_pc' = "plant"
    /\ UNCHANGED <<d_avg, g_added, g_trials, g_drbg, g_out>>
    /\ UNCHANGED <<configVars, protocolVars, bitVars, vaultVars, permVars, keyVars, drbgVars>>

\* faulty variant: the edge that closes the cycle is left out
GenPlant_NoClosingEdge ==
    /\ g_pc = "plant"
    /\ g_i < nv
    /\ g_rows' = IF g_i = nv - 1 THEN g_rows
                 ELSE add_edge_undirected(g_rows, sigma[g_i + 1], sigma[g_i + 2])
    /\ g_i' = g_i + 1
    /\ UNCHANGED <<d_avg, g_pc, g_added, g_trials, g_drbg, g_out>>
    /\ UNCHANGED <<configVars, protocolVars, bitVars, vaultVars, permVars, keyVars, drbgVars>>

\* one pass of the planting loop: bm.add_edge_undirected(sigma[i], sigma[(i+1) % n])
GenPlant ==
    /\ g_pc = "plant"
    /\ g_i < nv
    /\ g_rows' = add_edge_undirected(g_rows, sigma[g_i + 1], sigma[((g_i + 1) % nv) + 1])
    /\ g_i' = g_i + 1
    /\ UNCHANGED <<d_avg, g_pc, g_added, g_trials, g_drbg, g_out>>
    /\ UNCHANGED <<configVars, protocolVars, bitVars, vaultVars, permVars, keyVars, drbgVars>>

\* faulty variant: a DRBG made by an earlier call is used again
GenNoiseStart_KeepsDrbg ==
    /\ g_pc = "plant"
    /\ g_i >= nv
    /\ g_drbg' = IF Made(g_drbg) THEN g_drbg ELSE DRBG(NoiseKey(seed_pub))
    /\ g_added' = 0
    /\ g_trials' = 0
    /\ g_pc' = "noise"
    /\ UNCHANGED <<d_avg, g_rows, g_i, g_out>>
    /\ UNCHANGED <<configVars, protocolVars, bitVars, vaultVars, permVars, keyVars, drbgVars>>

\* range(n) is exhausted: key, drbg = DRBG(key), added = 0, trials = 0
GenNoiseStart ==
    /\ g_pc = "plant"
    /\ g_i >= nv
    /\ g_drbg' = DRBG(NoiseKey(seed_pub))
    /\ g_added' = 0
    /\ g_trials' = 0
    /\ g_pc' = "noise"
    /\ UNCHANGED <<d_avg, g_rows, g_i, g_out>>
    /\ UNCHANGED <<configVars, protocolVars, bitVars, vaultVars, permVars, keyVars, drbgVars>>

\* the condition of the while loop
NoiseGoesOn ==
    g_added < target_edges(nv, d_avg) - nv /\ g_trials < max_trials(nv)

\* faulty variant: trials counts the attempts that were not skipped
NoisePass_CountsAfterSkip ==
    LET ru == randint(g_drbg, 0, nv - 1)
        rv == randint(ru.drbg, 0, nv - 1)
    IN  /\ g_drbg' = rv.drbg
        /\ IF ru.value = rv.value \/ has_edge(g_rows, ru.value, rv.value)
           THEN UNCHANGED <<g_rows, g_added, g_trials>>
           ELSE /\ g_rows' = add_edge_undirected(g_rows, ru.value, rv.value)
                /\ g_added' = g_added + 1
                /\ g_trials' = g_trials + 1

\* the body of the while loop: trials += 1, two draws, the two tests that
\* skip the pair, the new edge
NoisePass ==
    LET ru == randint(g_drbg, 0, nv - 1)
        rv == randint(ru.drbg, 0, nv - 1)
    IN  /\ g_trials' = g_trials + 1
        /\ g_drbg' = rv.drbg
        /\ IF ru.value = rv.value \/ has_edge(g_rows, ru.value, rv.value)
           THEN UNCHANGED <<g_rows, g_added>>
           ELSE /\ g_rows' = add_edge_undirected(g_rows, ru.value, rv.value)
                /\ g_added' = g_added + 1

\* one pass of the noise loop
GenNoiseStep ==
    /\ g_pc = "noise"
    /\ NoiseGoesOn
    /\ NoisePass
    /\ UNCHANGED <<d_avg, g_pc, g_i, g_out>>
    /\ UNCHANGED <<configVars, protocolVars, bitVars, vaultVars, permVars, keyVars, drbgVars>>

\* the loop condition fails: return bm
GenReturn ==
    /\ g_pc = "noise"
    /\ ~NoiseGoesOn
    /\ g_out' = Append(g_out, g_rows)
    /\ g_pc' = "idle"
    /\ UNCHANGED <<d_avg, g_rows, g_i, g_added, g_trials, g_drbg>>
    /\ UNCHANGED <<configVars, protocolVars, bitVars, vaultVars, permVars, keyVars, drbgVars>>

\* ------------------------------------------------------- BitMatrix calls
\* the rows and columns set_bit is called with: all of a small matrix; of a
\* larger one the first, the last of the first byte and the last
BitIndices(size) == {k \in 0..(size - 1) : k < MaxSmallSize \/ k = 7 \/ k = size - 1}

\* bm.set_bit(i, j, v)
BmSetBit(i, j, v) ==
    /\ scall.count < MaxSets
    /\ bits' = set_bit(bits, i, j, v)
    /\ scall' = [count |-> scall.count + 1, i |-> i, j |-> j, v |-> v,
                 before |-> bits]
    /\ UNCHANGED <<configVars, protocolVars, vaultVars, permVars, keyVars, drbgVars, genVars>>

\* ------------------------------------------------------------ seed storage
\* Scrypt(salt, length=32, n=2**17, r=8, p=1).derive(passphrase.encode()),
\* collision free: the pair under a tag
derive_key_from_passphrase(passphrase, salt) == [scrypt |-> <<passphrase, salt>>]

\* AESGCM(key).encrypt(nonce, plain, None): ciphertext and tag are one block
\* that names what was sealed and under which key and nonce
AesGcmEncrypt(key, nonce, plain) ==
    <<[gcm_key |-> key, gcm_nonce |-> nonce, plain |-> plain]>>

\* faulty variant: the tag is not verified
AesGcmDecrypt_NoAuth(key, nonce, ct) ==
    IF Len(ct) = 1 THEN [raised |-> "", seed |-> ct[1].plain]
    ELSE [raised |-> "InvalidTag", seed |-> <<>>]

\* AESGCM(key).decrypt(nonce, ct, None): the plaintext when key and nonce are
\* those of the encryption, InvalidTag otherwise
AesGcmDecrypt(key, nonce, ct) ==
    IF Len(ct) = 1 /\ ct[1].gcm_key = key /\ ct[1].gcm_nonce = nonce
    THEN [raised |-> "", seed |-> ct[1].plain]
    ELSE [raised |-> "InvalidTag", seed |-> <<>>]

\* a binary file: missing, or holding bytes
NoFile == [exists |-> FALSE, data |-> <<>>]
Bytes(data) == [exists |-> TRUE, data |-> data]
NoEncrypt == [seed |-> <<>>, passphrase |-> "", calls |-> 0]
NoDecrypt == [passphrase |-> "", given |-> NoEncrypt, raised |-> "", seed |-> <<>>]

\* os.urandom(SALT_SIZE), os.urandom(NONCE_SIZE): two values of each
SaltChoices == {[k \in 1..SALT_SIZE |-> v] : v \in 0..1}
NonceChoices == {[k \in 1..NONCE_SIZE |-> v] : v \in 0..1}
\* the seeds (SEED_SIZE bytes) and passphrases explored
VaultSeeds == {[k \in 1..SEED_SIZE |-> v] : v \in 1..2}
Passphrases == {"", "pi", "pi "}

\* encrypt_seed(seed, passphrase, outpath)
EncryptSeed(seed, passphrase) ==
    /\ \E salt \in SaltChoices : \E nonce \in NonceChoices :
           LET key == derive_key_from_passphrase(passphrase, salt)
               ct == AesGcmEncrypt(key, nonce, seed)
           IN  /\ encFile' = Bytes(nonce \o ct)
               /\ saltFile' = Bytes(salt)
    /\ metaFile' = File([scheme |-> "scrypt+AESGCM", salt_size |-> SALT_SIZE,
                         nonce_size |-> NONCE_SIZE, seed_size |-> SEED_SIZE])
    /\ enc_last' = [seed |-> seed, passphrase |-> passphrase, calls |-> 1]
    /\ UNCHANGED dec
    /\ UNCHANGED <<configVars, protocolVars, bitVars, permVars, keyVars, drbgVars, genVars>>

\* decrypt_seed(passphrase, outpath)
DecryptSeed(passphrase) ==
    /\ IF ~saltFile.exists \/ ~encFile.exists
       THEN dec' = [passphrase |-> passphrase, given |-> enc_last,
                    raised |-> "FileNotFoundError", seed |-> <<>>]
       ELSE LET salt == saltFile.data
                key == derive_key_from_passphrase(passphrase, salt)
                data == encFile.data
                nonce == SubSeq(data, 1, Min(NONCE_SIZE, Len(data)))
                ct == SubSeq(data, NONCE_SIZE + 1, Len(data))
                res == AesGcmDecrypt(key, nonce, ct)
            IN  dec' = [passphrase |-> passphrase, given |-> enc_last,
                        raised |-> res.raised, seed |-> res.seed]
    /\ UNCHANGED <<encFile, saltFile, metaFile, enc_last>>
    /\ UNCHANGED <<configVars, protocolVars, bitVars, permVars, keyVars, drbgVars, genVars>>

\* ------------------------------------------------------- specifications
InitConfig ==
    /\ nv = n
    /\ sigma \in SigmaChoices
    /\ \E draws \in NoiseChoices : bm = generate_graph_with_planted_cycle(nv, sigma, draws)
    /\ t_rounds \in 1..MaxT

InitProtocol ==
    /\ commitsFile = Absent /\ challFile = Absent
    /\ openFile = Absent /\ resultFile = Absent
    /\ s_pc = "wait_commits" /\ commits = <<>> /\ s_session = ""
    /\ rr = 0 /\ b = -1 /\ open_pkg = NoPkg /\ ok = FALSE /\ detail = OkDetail
    /\ session_ok = TRUE /\ msg = OkMsg
    /\ c_pc = "start" /\ c_session = "" /\ c_rr = 0 /\ challenge = NoChallenge
    /\ nonces = <<>> /\ c_res = NoResult
    /\ a_pc = "trial" /\ t = 0 /\ commit_pkg = NoCommitPkg /\ ch = NoChallenge
    /\ stats = [accepted |-> 0, rejected |-> 0, no_result |-> 0]
    /\ d_pc = "start" /\ d_session = "" /\ d_rr = 0 /\ d_challenge = NoChallenge
    /\ d_nonces = <<>> /\ d_res = NoResult
    /\ hist = NoHistory

\* the library functions not called, on fixed seeds
InitPermIdle ==
    /\ perm = <<>> /\ fy_i = 0 /\ p_pc = "idle" /\ p_drbg = NoDrbg
    /\ sm_perm = <<>> /\ sm_i = 0 /\ sm_pc = "idle" /\ sm_drbg = NoDrbg
InitDrbgIdle ==
    /\ drbgs = [o \in Objects |-> NoDrbg]
    /\ log = [o \in Objects |-> <<>>] /\ rcall = NoCall
    /\ wcall = NoLoop
InitGenIdle ==
    /\ g_pc = "idle" /\ g_rows = <<>> /\ g_i = 0 /\ g_added = 0 /\ g_trials = 0
    /\ g_drbg = NoDrbg /\ g_out = <<>>
\* no BitMatrix under test, no set_bit call
NoSet == [count |-> 0, i |-> 0, j |-> 0, v |-> 0, before |-> <<>>]
InitBitsIdle == bits = <<>> /\ scall = NoSet
InitVaultIdle ==
    /\ encFile = NoFile /\ saltFile = NoFile /\ metaFile = Absent
    /\ enc_last = NoEncrypt /\ dec = NoDecrypt
InitLibrary ==
    /\ InitVaultIdle
    /\ InitBitsIdle
    /\ InitPermIdle
    /\ InitDrbgIdle
    /\ InitGenIdle /\ d_avg = DefaultDAvg
    /\ seed_client = <<1>> /\ seed_pub = <<2>> /\ stream = <<>>

InitState == InitProtocol /\ InitLibrary

Init == InitConfig /\ mode = "random" /\ InitState

InitAttack == InitConfig /\ mode \in Modes /\ InitState

ServerNext ==
    \/ ServerReadCommits
    \/ ServerDrawChallenge
    \/ ServerWriteChallenge
    \/ ServerVerify
    \/ ServerRoundEnd
    \/ ServerOpenResult
    \/ ServerWriteResult
    \/ ServerCleanup

ClientNext ==
    \/ ClientStart
    \/ ClientGotChallenge
    \/ ClientWriteOpen
    \/ ClientReadResult

DeadlineNext ==
    \/ ServerOpenTimeout
    \/ ClientChallengeTimeout
    \/ ClientResultTimeout

AttackerNext ==
    \/ AttackerEnsureCommits
    \/ AttackerGotChallenge
    \/ AttackerChallengeTimeout
    \/ AttackerWriteOpen
    \/ AttackerReadResult
    \/ AttackerResultTimeout

\* the verifier and a prover that commits to the enrolled graph as
\* client_session does and then answers each challenge with any OPEN
Next == ServerNext \/ ClientStart \/ ProverSendOpen
Spec == Init /\ [][Next]_vars

\* the verifier and the honest prover, with deadlines
NextHonest == ServerNext \/ ClientNext \/ DeadlineNext
SpecHonest == Init /\ [][NextHonest]_vars

\* the verifier and the honest prover when no receive deadline expires
NextNoDeadline == ServerNext \/ ClientNext
SpecNoDeadline ==
    Init /\ [][NextNoDeadline]_vars /\ WF_vars(ServerNext) /\ WF_vars(ClientNext)

\* the verifier and the attacker harness
NextAttack == ServerNext \/ ServerOpenTimeout \/ AttackerNext
SpecAttack == InitAttack /\ [][NextAttack]_vars

\* ------------------------------------------------------------- claims
Opened(pkg) == Get(pkg, "opened_rows", <<>>)
Cycle(pkg) == Get(pkg, "cycle_indices", <<>>)
ServerVerified == s_pc = "verified"
ResultWritten == Complete(resultFile)

\* C1: no session in which every OPEN is forged by the attacker harness
\* ends with RESULT ok=true.
C1_ForgedNeverAccepted == ResultWritten => ~Doc(resultFile).ok

\* C2: when no receive deadline expires, the honest session ends with
\* RESULT ok=true after all T rounds, whatever challenge bits are drawn:
\* the verifier never ends the session with a failure, the RESULT it writes
\* is ok=true for the prover's session, and it does write it.
C2_HonestCompleteness ==
    /\ [](s_pc \in {"result", "result_open", "cleanup"} => session_ok /\ rr = t_rounds)
    /\ [](ResultWritten =>
            /\ Doc(resultFile).ok
            /\ Doc(resultFile).session = c_session
            /\ Doc(resultFile).rounds = t_rounds)
    /\ <>(ResultWritten /\ Doc(resultFile).ok)

C2_Witness ==
    /\ ResultWritten /\ Doc(resultFile).ok
    /\ t_rounds = MaxT /\ b = 1 /\ sigma # Identity

\* two consecutive vertices of the secret cycle, in order, next to each other
HoldsSigmaSegment(list) ==
    \E i \in 1..(Len(list) - 1) : \E k \in 1..n :
        list[i] = sigma[k] /\ list[i + 1] = sigma[(k % n) + 1]

\* C3: no OPEN the honest prover sends carries an ordered segment of sigma.
C3_SigmaNotSent == Complete(openFile) => ~HoldsSigmaSegment(Cycle(Doc(openFile)))

\* the row opened for vertex v has bit w set
OpenedBitSet(pkg, v, w) ==
    \E k \in 1..Len(Opened(pkg)) :
        /\ Opened(pkg)[k].index = v
        /\ RowBit(FromHex(Opened(pkg)[k].row_hex), w) = 1

CycleRule(pkg) ==
    LET C == Cycle(pkg)
    IN  \A k \in 1..Len(C) :
            /\ \E e \in 1..Len(Opened(pkg)) : Opened(pkg)[e].index = C[k]
            /\ OpenedBitSet(pkg, C[k], C[(k % Len(C)) + 1])

\* C4: whenever the verifier passes a round whose challenge bit is 1, every
\* vertex of cycle_indices has its row opened and each consecutive pair of
\* the cycle is an edge in the opened row.
C4_CycleRuleOnPass == (ServerVerified /\ ok /\ b = 1) => CycleRule(open_pkg)

\* C5: whenever the verifier passes a round whose challenge bit is 0, the
\* OPEN held an entry for every row 0..n-1 that recomputes to the pinned
\* commitment.
C5_AllRowsOnPass ==
    (ServerVerified /\ ok /\ b = 0) =>
        \A i \in 0..(n - 1) : \E k \in 1..Len(Opened(open_pkg)) :
            /\ Opened(open_pkg)[k].index = i
            /\ EntryHash(Opened(open_pkg)[k], Encode(open_pkg.context)) = commits[i + 1]

\* some entry has an index outside [0, n) or does not recompute to its commit
BadEntry(pkg, commit_list) ==
    \E k \in 1..Len(Opened(pkg)) :
        LET e == Opened(pkg)[k]
        IN  \/ e.index < 0
            \/ e.index >= n
            \/ EntryHash(e, Encode(pkg.context)) # commit_list[e.index + 1]

BadCycleShape(pkg) ==
    \/ "cycle_indices" \notin DOMAIN pkg
    \/ Cycle(pkg) = <<>>
    \/ \E i, j \in 1..Len(Cycle(pkg)) : i # j /\ Cycle(pkg)[i] = Cycle(pkg)[j]
    \/ Len(Cycle(pkg)) > n

\* C7: an OPEN with b=1 whose cycle_indices is absent, empty, has a
\* repeated vertex or is longer than n is rejected by verify_open.
C7_BadCycleShapeRejected ==
    (ServerVerified /\ open_pkg.b = 1 /\ BadCycleShape(open_pkg)) => ~ok

C7_Witness ==
    /\ ServerVerified /\ open_pkg.b = 1 /\ ~ok
    /\ ~BadEntry(open_pkg, commits)
    /\ Len(Cycle(open_pkg)) = 2 /\ Cycle(open_pkg)[1] = Cycle(open_pkg)[2]

\* C8: an OPEN with b=1 in which some value of cycle_indices lies outside
\* [0, n) is rejected.
C8_CycleRangeRejected ==
    (ServerVerified /\ open_pkg.b = 1
        /\ \E k \in 1..Len(Cycle(open_pkg)) :
              Cycle(open_pkg)[k] < 0 \/ Cycle(open_pkg)[k] >= n)
    => ~ok

\* C9: an OPEN whose opened_rows lists the same index twice is rejected.
C9_DuplicateIndexRejected ==
    (ServerVerified
        /\ \E i, j \in 1..Len(Opened(open_pkg)) :
              i # j /\ Opened(open_pkg)[i].index = Opened(open_pkg)[j].index)
    => ~ok

\* C10: the verifier passes a round only for an OPEN whose session field
\* equals the session id pinned from COMMITS.
C10_OpenSessionBound == (ServerVerified /\ ok) => open_pkg.session = s_session

NextMixed == ServerNext \/ ClientNext \/ DeadlineNext \/ AttackerNext
SpecMixed == Init /\ [][NextMixed]_vars

\* C12: in round r the prover answers only a CHALLENGE of its own session
\* whose round is r
C12_RoundMatch ==
    c_pc = "answer" =>
        /\ Get(challenge, "session", "") = c_session
        /\ Get(challenge, "round", 0) = c_rr

\* the rounds before the current one all verified, a failed round is the
\* last one consumed, and RESULT says ok exactly when T rounds verified
C13_State ==
    /\ (s_pc \in {"round", "chall_open", "await_open"} =>
            session_ok /\ hist.passed = hist.consumed)
    /\ (~session_ok /\ s_pc # "wait_commits" =>
            hist.consumed = hist.passed + 1 /\ hist.issued = hist.consumed)
    /\ (Complete(resultFile) =>
            /\ Doc(resultFile).ok = (hist.passed = t_rounds)
            /\ (~Doc(resultFile).ok => Doc(resultFile).msg.round = hist.issued))

\* after a failed round the verifier issues no challenge and goes to RESULT
C13_Step ==
    /\ (s_pc = "verified" /\ ~ok /\ s_pc' # s_pc =>
            s_pc' = "result" /\ ~session_ok' /\ challFile' = challFile)
    /\ (~session_ok /\ s_pc # "wait_commits" =>
            ~session_ok' /\ hist'.issued = hist.issued /\ rr' = rr)

\* C13: the verifier stops at the first round whose verification fails (no
\* further CHALLENGE, RESULT ok=false) and writes RESULT ok=true only when
\* all T rounds verified
C13_RejectOnFirstFailure == [](C13_State) /\ [][C13_Step]_vars

\* a session of MaxT rounds failed in its first round and its RESULT is out
C13_Witness ==
    /\ t_rounds = MaxT
    /\ Complete(resultFile)
    /\ ~Doc(resultFile).ok
    /\ Doc(resultFile).msg.round = 1
    /\ hist.issued = 1

\* the honest session with its deadlines; the server loop always takes its
\* next step (a wait for OPEN ends by a read or by the deadline), the
\* prover may stop at any point
SpecDeadline == Init /\ [][NextHonest]_vars /\ WF_vars(ServerNext \/ ServerOpenTimeout)

\* at most one RESULT per session, one once the session is over; a deadline
\* that expired names the round being waited for and gives ok=false, and a
\* session with fewer than T answers consumed never gets ok=true
C14_State ==
    /\ hist.results <= 1
    /\ (s_pc = "wait_commits" /\ hist.pinned # NoCommitPkg => hist.results = 1)
    /\ (s_pc \in {"result", "result_open", "cleanup"} /\ msg.text = "timeout waiting open" =>
            /\ ~session_ok
            /\ msg.round = hist.issued
            /\ hist.consumed = hist.issued - 1)
    /\ (Complete(resultFile) =>
            /\ Doc(resultFile).session = hist.pinned.session
            /\ (hist.consumed < t_rounds => ~Doc(resultFile).ok))

C15_AtomicPublish ==
    /\ \A f \in {commitsFile, challFile, openFile, resultFile} : f.exists => Complete(f)
    /\ c_pc # "crashed"

Client2Next ==
    \/ Client2Start
    \/ Client2GotChallenge
    \/ Client2WriteOpen
    \/ Client2ReadResult

\* two honest provers with distinct session ids and one verifier, no
\* deadline expiring
NextParallel == ServerNext \/ ClientNext \/ Client2Next
SpecParallel ==
    Init /\ [][NextParallel]_vars
    /\ WF_vars(ServerNext) /\ WF_vars(ClientNext) /\ WF_vars(Client2Next)

\* two honest provers and one verifier with every deadline: the second
\* prover may start after the session of the first has timed out
NextTwoProvers ==
    \/ NextParallel
    \/ DeadlineNext
    \/ Client2ChallengeTimeout
    \/ Client2ResultTimeout
SpecTwoProvers == Init /\ [][NextTwoProvers]_vars

\* the honest session is over on both sides
HonestSessionOver ==
    /\ c_pc \in {"done", "crashed"}
    /\ s_pc = "wait_commits"
    /\ hist.pinned.session = c_session
    /\ hist.results = 1

\* C16: once a session has terminated none of its COMMITS, CHALLENGE, OPEN
\* or RESULT remains in the mailbox, and the verifier never takes an OPEN
\* of another session for the OPEN of the session it is running
C16_NoResidue ==
    /\ (HonestSessionOver =>
            \A f \in {commitsFile, challFile, openFile, resultFile} :
                ~(Complete(f) /\ Doc(f).session = c_session))
    /\ (s_pc = "verified" => open_pkg.session = s_session)

\* C17: two honest provers with distinct session ids running at the same
\* time do not interfere: each OPEN is verified against the commits of its
\* own session, and when nothing more can happen each prover holds the
\* RESULT ok=true of its own session
C17_ParallelSessions ==
    /\ (s_pc = "verified" => open_pkg.session = s_session)
    /\ (~ENABLED NextParallel =>
            /\ c_pc = "done" /\ c_res.ok /\ c_res.session = c_session
            /\ d_pc = "done" /\ d_res.ok /\ d_res.session = d_session)

\* while a session runs the verifier holds the commits and the session id
\* it read from COMMITS at the start, and has verified the OPEN against them
C19_State ==
    /\ (s_pc # "wait_commits" =>
            /\ commits = hist.pinned.commits
            /\ s_session = hist.pinned.session)
    /\ (s_pc = "verified" =>
            [ok |-> ok, detail |-> detail] = verify_open(hist.pinned.commits, open_pkg, nv))
    /\ (Complete(challFile) /\ s_pc \in {"await_open", "verified"} =>
            Doc(challFile).session = hist.pinned.session)

\* no step of a running session changes them, whatever happens to COMMITS
C19_Step ==
    s_pc # "wait_commits" => commits' = commits /\ s_session' = s_session

\* C19: the commits vector and the session id the verifier reads from
\* COMMITS at the start of a session are the ones used to verify every
\* round; later writes to or removal of the COMMITS slot do not change them
C19_PinnedCommits == [](C19_State) /\ [][C19_Step]_vars

\* a round of session honest-1 verified while the COMMITS slot holds the
\* package of the other prover
C19_Witness ==
    /\ s_pc = "verified" /\ ok
    /\ hist.pinned.session = "honest-1"
    /\ Complete(commitsFile)
    /\ Doc(commitsFile).session = "honest-2"
    /\ Doc(commitsFile).commits # commits

\* the honest session of one round over enrolled graphs of several sizes:
\* small ones, and the sizes at and just above the number of rows the
\* client opens for b = 1
SizeChoices == (1..MaxSmallSize) \cup {OpenLimit, OpenLimit + 1}
SizedSigmas(size) == {[i \in 1..size |-> i - 1], [i \in 1..size |-> size - i]}
InitOpenSize ==
    /\ nv \in SizeChoices
    /\ sigma \in SizedSigmas(nv)
    /\ bm = generate_graph_with_planted_cycle(nv, sigma, <<>>)
    /\ t_rounds = 1
    /\ mode = "random"
    /\ InitState
SpecOpenSize == InitOpenSize /\ [][NextNoDeadline]_vars

\* C18: in every OPEN the honest prover sends for b = 1, each vertex of
\* cycle_indices has an entry in opened_rows whose row and nonce hash to the
\* commitment of that vertex, whatever the size of the graph
C18_CycleCovered ==
    Complete(openFile) /\ Get(Doc(openFile), "b", -1) = 1 =>
        LET pkg == Doc(openFile)
        IN  \A k \in 1..Len(pkg.cycle_indices) :
                \E j \in 1..Len(pkg.opened_rows) :
                    LET e == pkg.opened_rows[j]
                        v == pkg.cycle_indices[k]
                    IN  /\ e.index = v
                        /\ EntryHash(e, Encode("row-commit"))
                             = DigestHex(commit_row(bm, v, nonces[v + 1],
                                                    Encode("row-commit")))

\* the seeds explored
SeedChoices == {<<1>>, <<2>>}
\* the keys the two derive_permutation derive from a pair of seeds
PermKeys(sc, sp) == {PermKey(sc, sp), derive_prng_key(sc, sp)}
InitKeys ==
    /\ seed_client \in SeedChoices
    /\ seed_pub = <<2>>
    /\ stream \in [PermKeys(seed_client, seed_pub) -> Patterns(2)]
\* the protocol at rest, on a fixed graph
InitAtRest ==
    /\ sigma = Identity
    /\ bm = generate_graph_with_planted_cycle(n, Identity, <<>>)
    /\ t_rounds = 1
    /\ mode = "random"
    /\ InitProtocol

\* the two derive_permutation on their own, one called after the other, for
\* every n in -1..MaxPermSize and every stream explored
InitPerm ==
    /\ InitGenIdle /\ d_avg = DefaultDAvg
    /\ InitVaultIdle
    /\ InitBitsIdle
    /\ nv \in (-1)..MaxPermSize
    /\ InitAtRest
    /\ InitPermIdle
    /\ InitDrbgIdle
    /\ InitKeys
NextPerm ==
    \/ PermStart
    \/ PermSwap
    \/ PermReturn
    \/ SmPermStart
    \/ SmPermSwap
    \/ SmPermReturn
SpecPerm == InitPerm /\ [][NextPerm]_vars

\* two DRBG objects on their own: construction and rand_u32 calls
InitDrbg ==
    /\ InitGenIdle /\ d_avg = DefaultDAvg
    /\ InitVaultIdle
    /\ InitBitsIdle
    /\ nv = n
    /\ InitAtRest
    /\ InitPermIdle
    /\ InitDrbgIdle
    /\ seed_client = <<1>> /\ seed_pub = <<2>>
    /\ stream \in [PermKeys(seed_client, seed_pub) -> Patterns(2)]
NextDrbg ==
    \/ \E o \in Objects : \E key \in DOMAIN stream : DrbgNew(o, key)
    \/ \E o \in Objects : DrbgRandU32(o)
SpecDrbg == InitDrbg /\ [][NextDrbg]_vars

\* one DRBG object on a stream of period three: construction, rand_u32 and
\* randint calls
InitRandint ==
    /\ InitGenIdle /\ d_avg = DefaultDAvg
    /\ InitVaultIdle
    /\ InitBitsIdle
    /\ nv = n
    /\ InitAtRest
    /\ InitPermIdle
    /\ InitDrbgIdle
    /\ seed_client = <<1>> /\ seed_pub = <<2>>
    /\ stream \in [{PermKey(seed_client, seed_pub)} -> Patterns(3)]
NextRandint ==
    \/ \E key \in DOMAIN stream : DrbgNew(1, key)
    \/ DrbgRandU32(1)
    \/ \E rg \in RangeChoices : DrbgRandint(1, rg[1], rg[2])
SpecRandint == InitRandint /\ [][NextRandint]_vars

\* one DRBG object on a stream of period three: randint calls followed
\* through the rejection loop, for sizes up to and beyond 2^32
NextLoop ==
    \/ \E key \in DOMAIN stream : DrbgNew(1, key)
    \/ \E lo \in {0, 1, -1} : \E size \in RangeSizes : RandintEnter(1, lo, size)
    \/ RandintReject
    \/ RandintReturn
SpecLoop == InitRandint /\ [][NextLoop]_vars

\* the permutations given to the graph builder: the identity, and the
\* identity with its first two entries exchanged
GraphSigmas(size) ==
    {[i \in 1..size |-> i - 1],
     [i \in 1..size |-> IF i = 1 /\ size >= 2 THEN 1 ELSE IF i = 2 THEN 0 ELSE i - 1]}
\* the values of d_avg explored: the default 4.0, 2.5 and -1.0
DAvgChoices == {DefaultDAvg, [num |-> 5, den |-> 2], [num |-> -1, den |-> 1]}
\* the noise streams explored: every pattern of three words, 2^32 - 1 the
\* one word at the top, and the patterns of two pairs (u, v) with u in 0..1
\* and v in 2..3
NoiseStreams ==
    PatternsOver(LowWords \cup {<<Half - 1, Half - 1>>}, 3)
        \cup {<<<<0, u1>>, <<0, v1>>, <<0, u2>>, <<0, v2>>>> :
                          u1 \in 0..1, v1 \in 2..3, u2 \in 0..1, v2 \in 2..3}

\* generate_graph_with_planted_cycle called twice on the same arguments, for
\* every n in 0..MaxGraphSize and every noise stream explored
InitGraph ==
    /\ nv \in 0..MaxGraphSize
    /\ sigma \in GraphSigmas(nv)
    /\ d_avg \in DAvgChoices
    /\ bm = generate_graph_with_planted_cycle(n, Identity, <<>>)
    /\ t_rounds = 1
    /\ mode = "random"
    /\ InitProtocol
    /\ InitPermIdle
    /\ InitDrbgIdle
    /\ InitGenIdle
    /\ InitVaultIdle
    /\ InitBitsIdle
    /\ seed_client = <<1>> /\ seed_pub = <<2>>
    /\ stream \in [{NoiseKey(seed_pub)} -> NoiseStreams]
NextGraph ==
    \/ GenStart
    \/ GenPlant
    \/ GenNoiseStart
    \/ GenNoiseStep
    \/ GenReturn
SpecGraph == InitGraph /\ [][NextGraph]_vars

\* a BitMatrix of one or two bytes a row, fresh or a built graph, and
\* set_bit called on it
BitSizes == (1..MaxSmallSize) \cup {9}
InitBits ==
    /\ InitGenIdle /\ d_avg = DefaultDAvg
    /\ InitVaultIdle
    /\ nv \in BitSizes
    /\ InitAtRest
    /\ InitPermIdle
    /\ InitDrbgIdle
    /\ seed_client = <<1>> /\ seed_pub = <<2>> /\ stream = <<>>
    /\ scall = NoSet
    /\ \/ bits = EmptyMatrix(nv)
       \/ \E sg \in GraphSigmas(nv) : \E draws \in {<<>>, <<<<0, nv \div 2>>>>} :
              bits = generate_graph_with_planted_cycle(nv, sg, draws)
NextBits ==
    \E i \in BitIndices(nv) : \E j \in BitIndices(nv) : \E v \in {0, 1} :
        BmSetBit(i, j, v)
SpecBits == InitBits /\ [][NextBits]_vars

\* encrypt_seed and decrypt_seed on one path, called in any order
InitVault ==
    /\ nv = n
    /\ InitAtRest
    /\ InitPermIdle
    /\ InitDrbgIdle
    /\ InitGenIdle /\ d_avg = DefaultDAvg
    /\ InitVaultIdle
    /\ InitBitsIdle
    /\ seed_client = <<1>> /\ seed_pub = <<2>> /\ stream = <<>>
NextVault ==
    \/ \E sd \in VaultSeeds : \E pw \in Passphrases : EncryptSeed(sd, pw)
    \/ \E pw \in Passphrases : DecryptSeed(pw)
SpecVault == InitVault /\ [][NextVault]_vars

\* C20: for every n >= 1 and every DRBG stream, the list derive_permutation
\* builds has length n and holds each of 0..n-1 exactly once, after every
\* swap of the Fisher-Yates loop and when it is returned
C20_PermutationBijection ==
    nv >= 1 /\ p_pc \in {"loop", "done"} =>
        /\ Len(perm) = nv
        /\ \A v \in 0..(nv - 1) : Cardinality({k \in 1..nv : perm[k] = v}) = 1

\* a permutation of the largest size was returned with no vertex in place
C20_Witness ==
    /\ p_pc = "done"
    /\ nv = MaxPermSize
    /\ \A k \in 1..nv : perm[k] # k - 1

\* C21: derive_permutation fails with an invalid-size error when n <= 0: it
\* does not return a permutation for such an n
C21_InvalidSizeRejected ==
    nv <= 0 => p_pc # "done" /\ sm_pc # "done"

\* r >= floor(2^32 / size) * size: r lies in the last, incomplete run of
\* size consecutive values below 2^32 (for 0 < size <= 2^16)
AboveLastMultiple(w, size) ==
    w[1] = Half - 1 /\ (Half - 1 - w[2]) + WordMod(w, size) + 1 < size

\* C22: randint(a, b) with n = b - a + 1 > 0 draws words of the stream from
\* the current counter on, rejects every word r >= floor(2^32 / n) * n and
\* returns a + (r mod n) for the first word it accepts, a value of [a, b];
\* with n <= 0 it raises without drawing, the counter unchanged
C22_RandintContract ==
    rcall.obj # 0 =>
        LET size == rcall.hi - rcall.lo + 1
            res == rcall.res
            k == Len(res.drawn)
        IN  IF size <= 0
            THEN /\ res.raised = "ValueError"
                 /\ k = 0
                 /\ res.drbg.counter = rcall.before.counter
            ELSE /\ res.raised = ""
                 /\ k >= 1
                 /\ res.drbg.counter = rcall.before.counter + k
                 /\ \A i \in 1..k :
                        res.drawn[i] = Word(rcall.before.key, rcall.before.counter + i - 1)
                 /\ \A i \in 1..(k - 1) : AboveLastMultiple(res.drawn[i], size)
                 /\ ~AboveLastMultiple(res.drawn[k], size)
                 /\ res.value = rcall.lo + WordMod(res.drawn[k], size)
                 /\ rcall.lo <= res.value /\ res.value <= rcall.hi

\* a call that rejected two words before it accepted one
C22_Witness ==
    /\ rcall.obj # 0
    /\ rcall.res.raised = ""
    /\ Len(rcall.res.drawn) = 3
    /\ rcall.res.value = rcall.hi

\* C29 (states): the counter of a DRBG is the number of words it has
\* returned, the k-th word is the one HMAC gives for its key and counter
\* k - 1, and two DRBGs of the same key have returned the same words
C29_State ==
    \A o \in Objects : Made(drbgs[o]) =>
        /\ drbgs[o].counter = Len(log[o])
        /\ \A k \in 1..Len(log[o]) : log[o][k] = Word(drbgs[o].key, k - 1)
        /\ \A q \in Objects : Made(drbgs[q]) /\ drbgs[q].key = drbgs[o].key =>
               \A k \in 1..Min(Len(log[o]), Len(log[q])) : log[o][k] = log[q][k]

\* C29 (steps): a DRBG starts with counter 0, and a step leaves its counter
\* alone or, when rand_u32 returns a word, increases it by exactly one
C29_Step ==
    \A o \in Objects :
        /\ ~Made(drbgs[o]) /\ Made(drbgs'[o]) => drbgs'[o].counter = 0 /\ log'[o] = <<>>
        /\ Made(drbgs[o]) =>
               \/ drbgs'[o].counter = drbgs[o].counter /\ log'[o] = log[o]
               \/ /\ drbgs'[o].counter = drbgs[o].counter + 1
                  /\ Len(log'[o]) = Len(log[o]) + 1

\* C29: a new DRBG has counter 0; each rand_u32 returns the word of the key
\* and the current counter and then increases the counter by exactly 1, so
\* the counter never decreases or repeats; two DRBGs with the same key
\* return the same sequence
C29_CounterStream == [](C29_State) /\ [][C29_Step]_vars

\* two DRBGs of one key have each returned MaxCalls words, not all the same
C29_Witness ==
    /\ Made(drbgs[1]) /\ Made(drbgs[2])
    /\ drbgs[1].key = drbgs[2].key
    /\ Len(log[1]) = MaxCalls /\ Len(log[2]) = MaxCalls
    /\ log[1][1] # log[1][2]

\* C30: the derive_permutation of matrix_graph.py and the one of
\* seed_manager.py, called with the same (n, seed_client, seed_pub) and their
\* default context, return the same sigma
C30_SamePermutation ==
    p_pc = "done" /\ sm_pc = "done" => sm_perm = perm

\* the matrix has the edge (sg[i], sg[(i+1) mod size]) for every i in [0, size)
HasPlantedCycle(rows, sg, size) ==
    \A i \in 0..(size - 1) : has_edge(rows, sg[i + 1], sg[((i + 1) % size) + 1])

\* C23: for every n >= 1, every bijection sigma, every seed_pub and d_avg,
\* the matrix generate_graph_with_planted_cycle returns has the edge
\* (sigma[i], sigma[(i+1) mod n]) for every i in [0, n)
C23_CyclePlanted ==
    nv >= 1 => \A k \in 1..Len(g_out) : HasPlantedCycle(g_out[k], sigma, nv)

\* C23 as it holds: for every n >= 2 the matrix returned has the edge
\* (sigma[i], sigma[(i+1) mod n]) for every i in [0, n)
C23_FromTwoVertices ==
    nv >= 2 => \A k \in 1..Len(g_out) : HasPlantedCycle(g_out[k], sigma, nv)

\* a graph of the largest size was returned for the second permutation
C23_Witness ==
    Len(g_out) >= 1 /\ nv = MaxGraphSize /\ sigma[1] = 1

\* G[i,j] = G[j,i] and G[i,i] = 0 for all i, j
SymmetricNoLoops(rows, size) ==
    \A i \in 0..(size - 1) :
        /\ get_bit(rows, i, i) = 0
        /\ \A j \in 0..(size - 1) : get_bit(rows, i, j) = get_bit(rows, j, i)

\* C24: in every state reached while the graph is built, after each
\* add_edge_undirected of the planting loop and of the noise loop, and in the
\* matrix returned, G[i,j] = G[j,i] and G[i,i] = 0
C24_SymmetricNoLoops ==
    /\ g_pc \in {"plant", "noise"} => SymmetricNoLoops(g_rows, nv)
    /\ \A k \in 1..Len(g_out) : SymmetricNoLoops(g_out[k], nv)

\* the noise loop has added two edges to a planted cycle
C24_Witness ==
    g_pc = "noise" /\ g_added = 2 /\ g_i = nv

\* C25: two calls with the same (n, seed_pub, sigma, d_avg) return
\* bit-identical matrices, also when the noise loop stops on the trials cap
C25_Deterministic ==
    Len(g_out) = 2 => g_out[1] = g_out[2]

\* the second call has returned, its noise loop stopped by the trials cap
\* after it added an edge
C25_Witness ==
    /\ Len(g_out) = 2
    /\ g_pc = "idle"
    /\ nv >= 1
    /\ g_trials = max_trials(nv)
    /\ g_added >= 1

\* C28 (states): trials is at most 50 * n and the number of noise edges
\* added is at most max(0, floor(n * d_avg / 2) - n)
C28_State ==
    g_pc = "noise" =>
        /\ g_trials <= 50 * nv
        /\ g_added <= (IF ((nv * d_avg.num) \div (2 * d_avg.den)) - nv > 0
                       THEN ((nv * d_avg.num) \div (2 * d_avg.den)) - nv ELSE 0)

\* C28 (steps): every pass of the noise loop, skipped or not, adds one to
\* trials and at most one edge
C28_Step ==
    g_pc = "noise" /\ g_pc' = "noise" =>
        /\ g_trials' = g_trials + 1
        /\ g_added' \in {g_added, g_added + 1}

\* C28: for every DRBG stream the noise loop ends after at most 50 * n
\* passes, each pass counted as a trial, and adds at most
\* max(0, floor(n * d_avg / 2) - n) edges
C28_NoiseLoopBounded == [](C28_State) /\ [][C28_Step]_vars

\* the loop of the largest graph ran into the trials cap after adding an edge
C28_Witness ==
    /\ g_pc = "noise"
    /\ nv = MaxGraphSize
    /\ g_trials = 50 * nv
    /\ g_added >= 1

\* C26: commit_matrix_rows returns n commits and n nonces with
\* commits[i] = SHA-256(row_i || nonces[i] || context); and the hash the
\* verifier recomputes from each (row, nonce) of an honest OPEN, with the
\* context that OPEN carries, equals the commitment pinned for that row
C26_CommitRoundTrip ==
    /\ Complete(commitsFile) =>
           LET cs == Doc(commitsFile).commits
           IN  /\ Len(cs) = nv
               /\ Len(nonces) = nv
               /\ \A i \in 0..(nv - 1) :
                      cs[i + 1] = DigestHex(Sha256(bm[i] \o nonces[i + 1] \o <<114, 99>>))
    /\ Complete(openFile) /\ s_session = c_session =>
           LET pkg == Doc(openFile)
           IN  \A k \in 1..Len(pkg.opened_rows) :
                   LET e == pkg.opened_rows[k]
                   IN  Sha256Hex(FromHex(e.row_hex) \o FromHex(e.nonce_hex)
                                 \o Encode(pkg.context)) = commits[e.index + 1]

\* the verifier holds the pinned commits and an honest OPEN for b = 1 is in
\* the mailbox
C26_Witness ==
    /\ Complete(openFile)
    /\ s_session = c_session
    /\ Doc(openFile).b = 1
    /\ Len(Doc(openFile).opened_rows) = nv
    /\ Len(commits) = nv

\* C27: for every passphrase p and 32-byte seed s, decrypt_seed(p, path)
\* after encrypt_seed(s, p, path) returns s; decrypt_seed with any other
\* passphrase fails with an authentication error and returns no seed
C27_SeedRoundTrip ==
    dec.given.calls = 1 =>
        IF dec.passphrase = dec.given.passphrase
        THEN dec.raised = "" /\ dec.seed = dec.given.seed
        ELSE dec.raised = "InvalidTag" /\ dec.seed = <<>>

\* a wrong passphrase was refused, the files holding the second seed under
\* the passphrase "pi"
C27_Witness ==
    /\ dec.given.calls = 1
    /\ dec.given.passphrase = "pi"
    /\ dec.passphrase = "pi "
    /\ dec.raised = "InvalidTag"
    /\ dec.given.seed[1] = 2

\* C31: a RESULT that a prover reports as its session result carries the
\* prover's own session id; a RESULT left in the mailbox by another or an
\* earlier session is never reported
C31_ResultOfOwnSession ==
    /\ (c_pc = "done" /\ c_res # NoResult) => c_res.session = c_session
    /\ (d_pc = "done" /\ d_res # NoResult) => d_res.session = d_session

\* the loop of the call followed is running or has returned
InLoop == wcall.pc \in {"loop", "returned"}
\* the stream of the call has a word below its threshold
HasWordBelow ==
    \E k \in 1..Len(stream[wcall.before.key]) :
        ~WordGE(stream[wcall.before.key][k], wcall.th)

\* C32 (as stated): for every range size n = b - a + 1 >= 1, sizes beyond
\* 2^32 included, the threshold t = 2^32 - (2^32 mod n) of randint is at
\* least 1, so that the rejection loop has a word to accept
C32_ThresholdPositive ==
    InLoop => WordGE(wcall.th, <<0, 1>>)

\* C32 (amended): for every range size 1 <= n <= 2^32 the threshold t is at
\* least 1 and the rejection loop ends at the first word below t: it has
\* passed over words >= t only, a word it returns on is below t, and on a
\* stream of period p with a word below t it draws at most p words
C32_UpToTwoTo32 ==
    (InLoop /\ UpToTwoTo32(wcall.size)) =>
        LET k == Len(wcall.drawn)
        IN  /\ WordGE(wcall.th, <<0, 1>>)
            /\ \A i \in 1..k :
                   wcall.drawn[i] = Word(wcall.before.key, wcall.before.counter + i - 1)
            /\ \A i \in 1..(k - 1) : WordGE(wcall.drawn[i], wcall.th)
            /\ wcall.pc = "returned" => ~WordGE(wcall.drawn[k], wcall.th)
            /\ HasWordBelow => k <= Len(stream[wcall.before.key])
            /\ (wcall.pc = "loop" /\ k <= MaxRejects) =>
                   ENABLED (RandintReject \/ RandintReturn)

\* a call of size 2^32 has returned on the largest word, 2^32 - 1, the
\* second word of the stream
C32_Witness ==
    /\ wcall.pc = "returned"
    /\ wcall.size = Wide(1, 0)
    /\ wcall.before.counter = 1
    /\ wcall.rem = <<Half - 1, Half - 1>>

\* the bit of column c in a row of bytes: byte c >> 3, mask 1 << (7 - (c & 7))
BitAt(row, c) == (row[(c \div 8) + 1] \div Pow2(7 - (c % 8))) % 2
\* the columns of a row of bytes of a matrix of the size nv, padding included
Columns == 0..(8 * row_bytes(nv) - 1)

\* C33: set_bit(i, j, v) with 0 <= i, j < n leaves get_bit(i, j) = v and
\* changes at most the bit of byte j >> 3 and mask 1 << (7 - (j & 7)) of
\* row i: every other bit of the matrix, the padding bits at the columns
\* >= n included, is what it was before; the padding bits of a built graph,
\* and of what set_bit makes of it, are all 0
C33_SetBitFrame ==
    /\ DOMAIN bits = 0..(nv - 1)
    /\ \A r \in 0..(nv - 1) :
           /\ Len(bits[r]) = row_bytes(nv)
           /\ \A k \in 1..row_bytes(nv) : bits[r][k] \in 0..255
           /\ \A c \in Columns : c >= nv => BitAt(bits[r], c) = 0
    /\ scall.count > 0 =>
           /\ get_bit(bits, scall.i, scall.j) = scall.v
           /\ BitAt(bits[scall.i], scall.j) = scall.v
           /\ \A r \in 0..(nv - 1) : \A c \in Columns :
                  <<r, c>> # <<scall.i, scall.j>> =>
                      BitAt(bits[r], c) = BitAt(scall.before[r], c)

\* a bit of the second byte of a row of a built graph of nine vertices was
\* cleared, the row's last bit before the padding
C33_Witness ==
    /\ nv = 9
    /\ scall.count > 0
    /\ scall.i = 0 /\ scall.j = 8 /\ scall.v = 0
    /\ BitAt(scall.before[0], 8) = 1
    /\ bits[0] = <<64, 0>>

====
